---- MODULE Spec2Model ----
(***************************************************************************)
(* es-guard: configuration auto-detection (detectProjectConfig and its     *)
(* per-format extractors), the orchestrator runESGuard, and the            *)
(* compatibility check with source-map remapping (checkCompatibility,      *)
(* getOriginalSourceMap, getSourceMapForFile).                             *)
(*                                                                         *)
(* Optional JavaScript values are modelled as sets with at most one        *)
(* element: {} is undefined, {v} is the value v.                           *)
(***************************************************************************)
EXTENDS Integers, Sequences, FiniteSets, TLC

VARIABLES
  files,       \* project directory: candidate index -> file state
  ptype,       \* globalState.ts: projectType / projectTypeDetected
  dpc,         \* detectProjectConfig: "scan" | "done"
  idx,         \* detectProjectConfig: index of the last candidate processed
  result,      \* detectProjectConfig: the DetectionResult being accumulated
  scanned,     \* detectProjectConfig: indices whose parser has been called
  failed,      \* detectProjectConfig: indices whose parser threw
  env,         \* process.env.BROWSERSLIST
  mfs,         \* the files below the scanned directory: path -> file state
  lintOut,     \* what eslint.lintFiles does when it is called
  ccfg,        \* checkCompatibility: its config argument, None before a call
  cpc,         \* checkCompatibility: where the call is
  origEnv,     \* checkCompatibility: originalBrowserslistEnv
  envAtEntry,  \* BROWSERSLIST when checkCompatibility was entered
  envAtLint,   \* BROWSERSLIST when eslint.lintFiles was called, None before
  fi,          \* checkCompatibility: index of the lint result being processed
  errors,      \* checkCompatibility: errors
  warnings,    \* checkCompatibility: warnings
  mpc,         \* getOriginalSourceMap: "idle" | "loop" | "done" | "threw"
  currentFile, \* getOriginalSourceMap: currentFile
  consumer,    \* getOriginalSourceMap: consumer
  originalFile, \* getOriginalSourceMap: originalFile
  live,        \* SourceMapConsumers created and not yet destroyed
  lastHop,     \* the last getSourceMapForFile call: its argument and outcome
  opts,        \* runESGuard: its options argument
  disk,        \* directory path -> "missing" | "file" | "dir"
  rpc,         \* runESGuard: "idle" | "call" | "checking" | "returned" | "threw"
  ret,         \* runESGuard: the value returned or the error thrown
  pcall,       \* a call of a function on its own: its name and arguments
  pret         \* what that call returned, None before it has run; for a
               \* sequence of calls, what each returned or where each is

dvars == <<files, ptype, dpc, idx, result, scanned, failed>>

cvars == <<env, mfs, lintOut, ccfg, cpc, origEnv, envAtEntry, envAtLint, fi,
           errors, warnings>>

mvars == <<mpc, currentFile, consumer, originalFile, live, lastHop>>

rvars == <<opts, disk, rpc, ret>>

pvars == <<pcall, pret>>

vars == <<dvars, cvars, mvars, rvars, pvars>>

----------------------------------------------------------------------------
(* Optional values *)

None == {}

Some(v) == {v}

Val(o) == CHOOSE v \in o : TRUE

\* JavaScript truthiness of an optional string ("" is falsy)
TruthyStr(o) == o # {} /\ Val(o) # ""

\* A browserslist query string is held as the sequence of its
\* comma-separated entries; "" is <<>>.  Truthiness of an optional one:
TruthyQuery(o) == o # {} /\ Val(o) # <<>>

\* JavaScript truthiness of an optional array (every array is truthy)
TruthyArr(o) == o # {}

----------------------------------------------------------------------------
(* The ordered candidate list and the parser of each candidate *)

CONFIG_FILE_NAMES ==
  << "package.json", ".browserslistrc", ".browserslist", "tsconfig.json",
     "babel.config.js", "babel.config.cjs", "babel.config.mjs", ".babelrc",
     "vite.config.js", "vite.config.ts", "vite.config.cjs", "vite.config.mjs",
     "webpack.config.js", "webpack.config.ts", "webpack.config.cjs",
     "webpack.config.mjs", "next.config.js", "next.config.ts",
     "next.config.cjs", "next.config.mjs" >>

Candidates == 1..Len(CONFIG_FILE_NAMES)

getParser(filename) ==
  CASE filename = "package.json" -> "parsePackageJson"
    [] filename \in {".browserslistrc", ".browserslist"} -> "parseBrowserslistFile"
    [] filename = "tsconfig.json" -> "parseTsConfig"
    [] filename = ".babelrc" -> "parseBabelRc"
    [] filename \in {"babel.config.js", "babel.config.cjs", "babel.config.mjs"}
         -> "parseBabelConfig"
    [] filename \in {"vite.config.js", "vite.config.ts", "vite.config.cjs",
                     "vite.config.mjs"} -> "parseViteConfig"
    [] filename \in {"webpack.config.js", "webpack.config.ts",
                     "webpack.config.cjs", "webpack.config.mjs"}
         -> "parseWebpackConfig"
    [] filename \in {"next.config.js", "next.config.ts", "next.config.cjs",
                     "next.config.mjs"} -> "parseNextConfig"
    [] OTHER -> "null"

TARGET_MAP ==
  [t \in {"ES2022", "ES2021", "ES2020", "ES2019", "ES2018", "ES2017", "ES2016",
          "ES2015", "ES6", "ES5", "ES3", "es2022", "es2021", "es2020",
          "es2019", "es2018", "es2017", "es2016", "es2015", "es6", "es5"} |->
     CASE t \in {"ES2022", "es2022"} -> "2022"
       [] t \in {"ES2021", "es2021"} -> "2021"
       [] t \in {"ES2020", "es2020"} -> "2020"
       [] t \in {"ES2019", "es2019"} -> "2019"
       [] t \in {"ES2018", "es2018"} -> "2018"
       [] t \in {"ES2017", "es2017"} -> "2017"
       [] t \in {"ES2016", "es2016"} -> "2016"
       [] t \in {"ES2015", "es2015", "ES6", "es6"} -> "2015"
       [] t \in {"ES5", "es5"} -> "2009"
       [] t = "ES3" -> "1999"]

\* as MappedTarget, passing the configured spelling on as it is
MappedTargetRaw(t) == Some(t)

\* TARGET_MAP[target], undefined for a key the table does not have
MappedTarget(t) == IF t \in DOMAIN TARGET_MAP THEN Some(TARGET_MAP[t]) ELSE None

----------------------------------------------------------------------------
(* globalState.ts and projectType.ts: the lazily cached project type *)

detectProjectType(deps) ==
  IF "next" \in deps THEN "nextjs"
  ELSE IF "vite" \in deps THEN "vite"
  ELSE IF "webpack" \in deps THEN "webpack"
  ELSE IF "rollup" \in deps THEN "rollup"
  ELSE IF "parcel" \in deps THEN "parcel"
  ELSE "generic"

\* readJsonFile: JSON.parse throws on malformed text, readFileSync on an
\* unreadable file
JsonThrows(f) == f.k \in {"badjson", "unreadable"}

\* isPackageJson / isViteConfig / isWebpackConfig / isNextConfig:
\* typeof obj === "object" && obj !== null
IsObject(f) == f.k = "json" /\ f.obj.t # "scalar"

\* returns [type |-> the ProjectType or None (null), pt |-> the new cache]
detectAndCacheProjectType(pkgFile, pt) ==
  IF pt.detected
    THEN [type |-> IF TruthyStr(pt.type) THEN pt.type ELSE None, pt |-> pt]
  ELSE IF pkgFile.k # "absent" /\ ~JsonThrows(pkgFile) /\ IsObject(pkgFile)
    THEN LET detectedType == detectProjectType(pkgFile.obj.deps)
         IN  [type |-> Some(detectedType),
              pt |-> [detected |-> TRUE, type |-> Some(detectedType)]]
  ELSE [type |-> None, pt |-> pt]

getCurrentProjectType(pkgFile, pt) ==
  LET d == detectAndCacheProjectType(pkgFile, pt)
  IN  [type |-> IF d.type # None THEN Val(d.type) ELSE "generic", pt |-> d.pt]

----------------------------------------------------------------------------
(* Per-format extractors.  Each returns [threw, r, pt]: whether the parser *)
(* raised, its ParserResult and the project-type cache it leaves behind.   *)

EmptyResult ==
  [target |-> None, outputDir |-> None, outputSource |-> None,
   browserslist |-> None, browserslistSource |-> None]

Threw(pt) == [threw |-> TRUE, r |-> EmptyResult, pt |-> pt]

Parsed(r, pt) == [threw |-> FALSE, r |-> r, pt |-> pt]

NEXTJS_DEFAULT_BROWSERSLIST ==
  <<"chrome 64", "edge 79", "firefox 67", "opera 51", "safari 12">>

\* as StringsOf, with the last entry first
RECURSIVE StringsOfReversed(_)
StringsOfReversed(items) ==
  IF items = <<>> THEN <<>>
  ELSE IF Head(items).str THEN StringsOfReversed(Tail(items)) \o <<Head(items).v>>
  ELSE StringsOfReversed(Tail(items))

\* the strings of a sequence of JSON array items, in order
RECURSIVE StringsOf(_)
StringsOf(items) ==
  IF items = <<>> THEN <<>>
  ELSE IF Head(items).str THEN <<Head(items).v>> \o StringsOf(Tail(items))
  ELSE StringsOf(Tail(items))

\* pkg.browserslist is truthy: a non-empty string or any array
TruthyBrowserslist(b) ==
  b # None /\ (Val(b).arr \/ Val(b).items[1].v # "")

parsePackageJson(f, pt) ==
  IF JsonThrows(f) THEN Threw(pt)
  ELSE IF ~IsObject(f) THEN Parsed(EmptyResult, pt)
  ELSE
    LET pkg == f.obj
        bl == IF TruthyBrowserslist(pkg.browserslist)
                THEN Some(StringsOf(Val(pkg.browserslist).items))
                ELSE None
        cur == getCurrentProjectType(f, pt)
        projectType == cur.type
        out == IF TruthyStr(pkg.dist) THEN [d |-> pkg.dist, s |-> None]
               ELSE IF TruthyStr(pkg.build) THEN [d |-> pkg.build, s |-> None]
               ELSE IF pkg.main # None /\ Val(pkg.main).inDist
                 THEN [d |-> Some("dist"), s |-> None]
               ELSE IF projectType = "nextjs"
                 THEN [d |-> Some(".next/static"),
                       s |-> Some("package.json (default)")]
               ELSE [d |-> None, s |-> None]
        defaulted == ~TruthyArr(bl) /\ projectType = "nextjs"
    IN  Parsed([target |-> None,
                outputDir |-> out.d,
                outputSource |-> out.s,
                browserslist |->
                  IF defaulted THEN Some(NEXTJS_DEFAULT_BROWSERSLIST) ELSE bl,
                browserslistSource |->
                  IF defaulted THEN Some("Next.js default") ELSE None],
               cur.pt)

parseTsConfig(f, pt) ==
  IF JsonThrows(f) THEN Threw(pt)
  ELSE IF ~(IsObject(f) /\ f.obj.hasCompilerOptions) THEN Parsed(EmptyResult, pt)
  ELSE
    LET co == f.obj
    IN  Parsed([EmptyResult EXCEPT
                  !.target = IF TruthyStr(co.target)
                               THEN MappedTarget(Val(co.target)) ELSE None,
                  !.outputDir = IF TruthyStr(co.outDir) THEN co.outDir ELSE None],
               pt)

\* split(","), trim, strip quotes, filter(b => b): the non-empty entries
RECURSIVE NonEmpty(_)
NonEmpty(items) ==
  IF items = <<>> THEN <<>>
  ELSE IF Head(items) # "" THEN <<Head(items)>> \o NonEmpty(Tail(items))
  ELSE NonEmpty(Tail(items))

\* f.browsers: the text between the brackets of the browsers array the two
\* regular expressions find, already split at the commas; None if no match
parseBabelConfig(f, pt) ==
  IF f.k = "unreadable" THEN Threw(pt)
  ELSE Parsed([EmptyResult EXCEPT
                 !.browserslist = IF f.browsers # None
                                    THEN Some(NonEmpty(Val(f.browsers)))
                                    ELSE None],
              pt)

parseBabelRc(f, pt) ==
  IF JsonThrows(f) THEN Threw(pt)
  ELSE IF ~(IsObject(f) /\ f.obj.hasPresets) THEN Parsed(EmptyResult, pt)
  ELSE Parsed([EmptyResult EXCEPT
                 !.browserslist = IF TruthyArr(f.obj.presetEnvBrowsers)
                                    THEN f.obj.presetEnvBrowsers ELSE None],
              pt)

\* The text of a JavaScript configuration file is modelled by what it does
\* when run: f.script.syntax says whether new Function accepts the text, and
\* f.script.steps are its statements in order (require(id), throw,
\* module.exports = f.exports).
Step(op, id) == [op |-> op, id |-> id]

\* as RequireModule, with every module available
RequireAnyModule(id) == Some(id)

\* the require stand-in: the module, or None when it throws "Cannot require"
RequireModule(id) == IF id = "path" THEN Some("path")
                     ELSE IF id = "fs" THEN Some("fs")
                     ELSE None

\* fn(module, module.exports, require, ...): whether a statement threw, and
\* whether module.exports was assigned
RECURSIVE RunSteps(_, _)
RunSteps(steps, assigned) ==
  IF steps = <<>> THEN [threw |-> FALSE, assigned |-> assigned]
  ELSE LET s == Head(steps)
       IN  IF s.op = "throw" THEN [threw |-> TRUE, assigned |-> assigned]
           ELSE IF s.op = "require" /\ RequireModule(s.id) = None
             THEN [threw |-> TRUE, assigned |-> assigned]
           ELSE RunSteps(Tail(steps), assigned \/ s.op = "exports")

\* module.exports as created: { }
EmptyExports(f) == [x \in DOMAIN f.exports |-> None]

\* evaluateJsFile: threw when readTextFile throws; otherwise value is the
\* exported object, or None (null) when the try block caught an error
evaluateJsFile(f) ==
  IF f.k = "unreadable" THEN [threw |-> TRUE, value |-> None]
  ELSE IF ~f.script.syntax THEN [threw |-> FALSE, value |-> None]
  ELSE LET run == RunSteps(f.script.steps, FALSE)
       IN  IF run.threw THEN [threw |-> FALSE, value |-> None]
           ELSE [threw |-> FALSE,
                 value |-> Some(IF run.assigned THEN f.exports
                                ELSE EmptyExports(f))]

\* a configuration file that evaluates, and one that asks for a module the
\* stand-in refuses
OkScript ==
  [syntax |-> TRUE, steps |-> <<Step("require", "path"), Step("exports", "")>>]

BadScript ==
  [syntax |-> TRUE, steps |-> <<Step("require", "crypto"), Step("exports", "")>>]

ScriptOf(ok) == IF ok THEN OkScript ELSE BadScript

parseViteConfig(f, pt) ==
  IF f.k = "unreadable" THEN Threw(pt)
  ELSE
    LET config == evaluateJsFile(f).value
    IN  Parsed([EmptyResult EXCEPT
                  !.target = IF f.esbuildTarget # None
                               THEN MappedTarget(Val(f.esbuildTarget)) ELSE None,
                  !.outputDir = IF config # None /\ TruthyStr(Val(config).outDir)
                                  THEN Val(config).outDir ELSE None],
               pt)

\* path.basename of a path given as its sequence of segments
Basename(segs) == IF segs = <<>> THEN "" ELSE segs[Len(segs)]

parseWebpackConfig(f, pt) ==
  IF f.k = "unreadable" THEN Threw(pt)
  ELSE
    LET config == evaluateJsFile(f).value
    IN  Parsed([EmptyResult EXCEPT
                  !.target = IF f.target # None
                               THEN MappedTarget(Val(f.target)) ELSE None,
                  !.outputDir = IF config # None /\ Val(config).outputPath # None
                                  THEN Some(Basename(Val(Val(config).outputPath)))
                                  ELSE None],
               pt)

\* lines.map(trim).filter(line => line && !line.startsWith("#"))
RECURSIVE EntryLines(_)
EntryLines(lines) ==
  IF lines = <<>> THEN <<>>
  ELSE IF Head(lines).kind = "entry"
    THEN <<Head(lines).v>> \o EntryLines(Tail(lines))
  ELSE EntryLines(Tail(lines))

parseBrowserslistFile(f, pt) ==
  IF f.k = "unreadable" THEN Threw(pt)
  ELSE Parsed([EmptyResult EXCEPT !.browserslist = Some(EntryLines(f.lines))], pt)

parseNextConfig(f, pt) ==
  IF f.k = "unreadable" THEN Threw(pt)
  ELSE
    LET config == evaluateJsFile(f).value
    IN  IF config = None THEN Parsed(EmptyResult, pt)
        ELSE Parsed([EmptyResult EXCEPT
                       !.outputDir = IF TruthyStr(Val(config).distDir)
                                       THEN Val(config).distDir
                                       ELSE Some(".next")],
                    pt)

\* parser(filePath) for the parser getParser chose
RunParser(parser, f, pt) ==
  CASE parser = "parsePackageJson" -> parsePackageJson(f, pt)
    [] parser = "parseBrowserslistFile" -> parseBrowserslistFile(f, pt)
    [] parser = "parseTsConfig" -> parseTsConfig(f, pt)
    [] parser = "parseBabelRc" -> parseBabelRc(f, pt)
    [] parser = "parseBabelConfig" -> parseBabelConfig(f, pt)
    [] parser = "parseViteConfig" -> parseViteConfig(f, pt)
    [] parser = "parseWebpackConfig" -> parseWebpackConfig(f, pt)
    [] parser = "parseNextConfig" -> parseNextConfig(f, pt)

----------------------------------------------------------------------------
(* detectProjectConfig *)

EmptyDetection ==
  [target |-> None, targetSource |-> None,
   outputDir |-> None, outputSource |-> None,
   browserslist |-> None, browserslistSource |-> None]

\* as MergeDetection, without the "not already set" tests: the last file wins
MergeDetectionLastWins(res, detection, filename) ==
  LET setT == TruthyStr(detection.target)
      setO == TruthyStr(detection.outputDir)
      setB == TruthyArr(detection.browserslist)
  IN  [target |-> IF setT THEN detection.target ELSE res.target,
       targetSource |-> IF setT THEN Some(filename) ELSE res.targetSource,
       outputDir |-> IF setO THEN detection.outputDir ELSE res.outputDir,
       outputSource |->
         IF setO THEN (IF TruthyStr(detection.outputSource)
                         THEN detection.outputSource ELSE Some(filename))
         ELSE res.outputSource,
       browserslist |-> IF setB THEN detection.browserslist ELSE res.browserslist,
       browserslistSource |->
         IF setB THEN (IF TruthyStr(detection.browserslistSource)
                         THEN detection.browserslistSource ELSE Some(filename))
         ELSE res.browserslistSource]

\* the three "Update ... if found and not already set" blocks
MergeDetection(res, detection, filename) ==
  LET setT == TruthyStr(detection.target) /\ ~TruthyStr(res.target)
      setO == TruthyStr(detection.outputDir) /\ ~TruthyStr(res.outputDir)
      setB == TruthyArr(detection.browserslist) /\ ~TruthyArr(res.browserslist)
  IN  [target |-> IF setT THEN detection.target ELSE res.target,
       targetSource |-> IF setT THEN Some(filename) ELSE res.targetSource,
       outputDir |-> IF setO THEN detection.outputDir ELSE res.outputDir,
       outputSource |->
         IF setO THEN (IF TruthyStr(detection.outputSource)
                         THEN detection.outputSource ELSE Some(filename))
         ELSE res.outputSource,
       browserslist |-> IF setB THEN detection.browserslist ELSE res.browserslist,
       browserslistSource |->
         IF setB THEN (IF TruthyStr(detection.browserslistSource)
                         THEN detection.browserslistSource ELSE Some(filename))
         ELSE res.browserslistSource]

\* as AllFound, with the scan never stopping early
AllFoundNever(res) == FALSE

\* result.target && result.outputDir && result.browserslist
AllFound(res) ==
  TruthyStr(res.target) /\ TruthyStr(res.outputDir) /\ TruthyArr(res.browserslist)

\* fs.existsSync(path.join(cwd, filename))
Exists(fs, i) == fs[i].k # "absent"

\* as OnParseError, with the failure ending the scan
OnParseErrorAbort(res, i) == [result |-> res, stop |-> TRUE]

\* the catch block of the loop: log and continue with the next candidate
OnParseError(res, i) == [result |-> res, stop |-> FALSE]

\* one iteration of the loop for an existing candidate i:
\* [result, stop, threw, pt]
ScanCandidate(fs, res, pt, i) ==
  LET filename == CONFIG_FILE_NAMES[i]
      out == RunParser(getParser(filename), fs[i], pt)
  IN  IF out.threw
        THEN LET e == OnParseError(res, i)
             IN  [result |-> e.result, stop |-> e.stop, threw |-> TRUE, pt |-> out.pt]
        ELSE LET merged == MergeDetection(res, out.r, filename)
             IN  [result |-> merged, stop |-> AllFound(merged),
                  threw |-> FALSE, pt |-> out.pt]

\* the candidates after i that exist
Later(fs, i) == {j \in Candidates : j > i /\ Exists(fs, j)}

Min(S) == CHOOSE m \in S : \A n \in S : m <= n

\* The loop runs to the next candidate that exists (an absent candidate's
\* iteration has no effect) and processes it.
ScanNext ==
  /\ UNCHANGED pvars
  /\ dpc = "scan"
  /\ Later(files, idx) # {}
  /\ LET i == Min(Later(files, idx))
         step == ScanCandidate(files, result, ptype, i)
     IN  /\ idx' = i
         /\ result' = step.result
         /\ ptype' = step.pt
         /\ scanned' = scanned \cup {i}
         /\ failed' = IF step.threw THEN failed \cup {i} ELSE failed
         /\ dpc' = IF step.stop THEN "done" ELSE "scan"
  /\ UNCHANGED <<files, cvars, mvars, rvars>>

\* The candidate list is exhausted: return result
ScanEnd ==
  /\ UNCHANGED pvars
  /\ dpc = "scan"
  /\ Later(files, idx) = {}
  /\ dpc' = "done"
  /\ idx' = Len(CONFIG_FILE_NAMES)
  /\ UNCHANGED <<files, ptype, result, scanned, failed, cvars, mvars, rvars>>

----------------------------------------------------------------------------
(* The project directories the detector is run on *)

\* at most this many candidate files exist in the project directory
MaxPresent == 2

Absent == [k |-> "absent"]

Unreadable == [k |-> "unreadable"]

BadJson == [k |-> "badjson"]

ScalarJson == [k |-> "json", obj |-> [t |-> "scalar"]]

Item(s) == [str |-> TRUE, v |-> s]

NonStringItem == [str |-> FALSE, v |-> ""]

PackageJsons ==
  {BadJson, ScalarJson}
  \cup { [k |-> "json",
          obj |-> [t |-> "pkg", browserslist |-> b, dist |-> d, build |-> None,
                   main |-> None, deps |-> deps]] :
         b \in {None,
                Some([arr |-> TRUE, items |-> <<>>]),
                Some([arr |-> TRUE,
                      items |-> <<Item("defaults"), NonStringItem, Item("es2020")>>])},
         d \in {None, Some("lib")},
         deps \in {{}, {"next", "vite"}} }
  \cup { [k |-> "json",
          obj |-> [t |-> "pkg", browserslist |-> b, dist |-> None, build |-> bd,
                   main |-> m, deps |-> {"vite"}]] :
         b \in {Some([arr |-> FALSE, items |-> <<Item("")>>]),
                Some([arr |-> FALSE, items |-> <<Item("ie 11")>>])},
         bd \in {Some("")},
         m \in {Some([inDist |-> TRUE]), Some([inDist |-> FALSE])} }

BrowserslistFiles ==
  {Unreadable,
   [k |-> "text", lines |-> <<[kind |-> "comment", v |-> "# legacy"],
                              [kind |-> "blank", v |-> ""]>>],
   [k |-> "text", lines |-> <<[kind |-> "entry", v |-> "last 2 versions"],
                              [kind |-> "comment", v |-> "# legacy"],
                              [kind |-> "entry", v |-> "not dead"]>>]}

TsConfigs ==
  {BadJson,
   [k |-> "json", obj |-> [t |-> "ts", hasCompilerOptions |-> FALSE,
                           target |-> None, outDir |-> None]]}
  \cup { [k |-> "json", obj |-> [t |-> "ts", hasCompilerOptions |-> TRUE,
                                 target |-> t, outDir |-> o]] :
         t \in {None, Some("ES6"), Some("ESNext")},
         o \in {None, Some("out")} }

BabelConfigs ==
  { [k |-> "js", browsers |-> b] :
    b \in {None, Some(<<"">>), Some(<<"ie 11", "">>)} }

BabelRcs ==
  {BadJson,
   [k |-> "json", obj |-> [t |-> "babelrc", hasPresets |-> FALSE,
                           presetEnvBrowsers |-> None]]}
  \cup { [k |-> "json", obj |-> [t |-> "babelrc", hasPresets |-> TRUE,
                                 presetEnvBrowsers |-> b]] :
         b \in {None, Some(<<"> 1%">>)} }

ViteConfigs ==
  {Unreadable}
  \cup { [k |-> "js", esbuildTarget |-> t, script |-> ScriptOf(e.ok),
          exports |-> [outDir |-> e.outDir]] :
         t \in {None, Some("es2020")},
         e \in {[ok |-> FALSE, outDir |-> None],
                [ok |-> TRUE, outDir |-> Some("vite-out")]} }

WebpackConfigs ==
  { [k |-> "js", target |-> t, script |-> ScriptOf(e.ok),
     exports |-> [outputPath |-> e.path]] :
    t \in {Some("web"), Some("es5")},
    e \in {[ok |-> FALSE, path |-> None],
           [ok |-> TRUE, path |-> Some(<<"proj", "public">>)]} }

NextConfigs ==
  { [k |-> "js", script |-> ScriptOf(e.ok), exports |-> [distDir |-> e.distDir]] :
    e \in {[ok |-> FALSE, distDir |-> None],
           [ok |-> TRUE, distDir |-> None],
           [ok |-> TRUE, distDir |-> Some("build")]} }

\* what a candidate file can hold, by the parser that reads it
Contents(i) ==
  LET parser == getParser(CONFIG_FILE_NAMES[i])
  IN  CASE parser = "parsePackageJson" -> PackageJsons
        [] parser = "parseBrowserslistFile" -> BrowserslistFiles
        [] parser = "parseTsConfig" -> TsConfigs
        [] parser = "parseBabelRc" -> BabelRcs
        [] parser = "parseBabelConfig" -> BabelConfigs
        [] parser = "parseViteConfig" -> ViteConfigs
        [] parser = "parseWebpackConfig" -> WebpackConfigs
        [] parser = "parseNextConfig" -> NextConfigs

\* One file name per parser is modelled, and two where the order between
\* two files of one parser matters: package.json, .browserslistrc,
\* .browserslist, tsconfig.json, babel.config.js, .babelrc, vite.config.js,
\* vite.config.ts, webpack.config.js, next.config.js.  The other names of
\* the list are absent.
ModelledCandidates == {1, 2, 3, 4, 5, 8, 9, 10, 13, 17}

\* the directories that extend fs by at most k files at indices >= from
RECURSIVE Extend(_, _, _)
Extend(fs, from, k) ==
  IF k = 0 THEN {fs}
  ELSE {fs} \cup
       UNION { UNION { Extend([fs EXCEPT ![i] = c], i + 1, k - 1) :
                       c \in Contents(i) } :
               i \in {j \in ModelledCandidates : j >= from} }

\* the project directories with at most max candidate files present
Projects(max) == Extend([i \in Candidates |-> Absent], 1, max)

\* the cache is fresh, or left behind by an earlier run in the same process
ProjectTypeCaches ==
  {[detected |-> FALSE, type |-> None],
   [detected |-> TRUE, type |-> Some("nextjs")]}

\* no checkCompatibility call is under way
IdleCheck ==
  /\ env = None
  /\ mfs = <<>>
  /\ lintOut = [throws |-> FALSE, results |-> <<>>]
  /\ ccfg = None
  /\ cpc = "idle"
  /\ origEnv = None
  /\ envAtEntry = None
  /\ envAtLint = None
  /\ fi = 0
  /\ errors = <<>>
  /\ warnings = <<>>

\* no getOriginalSourceMap call is under way
IdleMap ==
  /\ mpc = "idle"
  /\ currentFile = None
  /\ consumer = None
  /\ originalFile = None
  /\ live = 0
  /\ lastHop = None

\* no function is called on its own
IdlePure ==
  /\ pcall = None
  /\ pret = None

\* no runESGuard call is under way
IdleRun ==
  /\ opts = None
  /\ disk = <<>>
  /\ rpc = "idle"
  /\ ret = None

InitDetect ==
  /\ IdlePure
  /\ IdleCheck
  /\ IdleMap
  /\ IdleRun
  /\ files \in Projects(MaxPresent)
  /\ ptype \in ProjectTypeCaches
  /\ dpc = "scan"
  /\ idx = 0
  /\ result = EmptyDetection
  /\ scanned = {}
  /\ failed = {}

NextDetect == ScanNext \/ ScanEnd

SpecDetect == InitDetect /\ [][NextDetect]_vars

----------------------------------------------------------------------------
(* Properties of detectProjectConfig *)

Fields == {"target", "outputDir", "browserslist"}

SourceOf(f) ==
  CASE f = "target" -> "targetSource"
    [] f = "outputDir" -> "outputSource"
    [] f = "browserslist" -> "browserslistSource"

Truthy(f, o) == IF f = "browserslist" THEN TruthyArr(o) ELSE TruthyStr(o)

\* what candidate i contributes when its parser is run on it
Extraction(i) ==
  LET out == RunParser(getParser(CONFIG_FILE_NAMES[i]), files[i], ptype)
  IN  IF Exists(files, i) /\ ~out.threw THEN out.r ELSE EmptyResult

Supplies(i, f) == Truthy(f, Extraction(i)[f])

\* the provenance candidate i gives field f: its own string, else its name
Provenance(i, f) ==
  LET e == Extraction(i)
  IN  IF f = "outputDir" /\ TruthyStr(e.outputSource) THEN e.outputSource
      ELSE IF f = "browserslist" /\ TruthyStr(e.browserslistSource)
        THEN e.browserslistSource
      ELSE Some(CONFIG_FILE_NAMES[i])

\* the candidates that exist in the project directory
Present == {i \in Candidates : Exists(files, i)}

FirstSupplier(i, f) ==
  Supplies(i, f) /\ \A h \in Present : h < i => ~Supplies(h, f)

FirstWinsAtEnd ==
  dpc = "done" =>
    \A f \in Fields : \A i, j \in Present :
      (i < j /\ FirstSupplier(i, f) /\ Supplies(j, f)) =>
        /\ result[f] = Extraction(i)[f]
        /\ result[SourceOf(f)] = Provenance(i, f)

NeverOverwritten ==
  \A f \in Fields :
    Truthy(f, result[f]) =>
      /\ result'[f] = result[f]
      /\ result'[SourceOf(f)] = result[SourceOf(f)]

\* C1: when candidates i < j both supply a field, the value and the
\* provenance in the result of detectProjectConfig are those of the first
\* candidate that supplies it, whatever j holds; and a field of the result,
\* once populated, is not changed by any later step of the pass.
C1_FirstFoundWins == [](FirstWinsAtEnd) /\ [][NeverOverwritten]_vars

C1_Witness ==
  /\ dpc = "done"
  /\ \E f \in Fields : \E i, j \in scanned :
       /\ i < j /\ FirstSupplier(i, f) /\ Supplies(j, f)
       /\ Extraction(i)[f] # Extraction(j)[f]

\* C2: a candidate whose parser raised contributes nothing, does not end
\* the scan (every later existing candidate is scanned unless all three
\* fields were found first), and a later candidate that is the first to
\* supply a field populates it.
C2_ParseFailureSkipped ==
  \A i \in failed :
    /\ \A f \in Fields : result[SourceOf(f)] # Some(CONFIG_FILE_NAMES[i])
    /\ dpc = "done" =>
         \A j \in Present :
           j > i =>
             /\ j \in scanned \/ AllFound(result)
             /\ \A f \in Fields :
                  FirstSupplier(j, f) =>
                    /\ result[f] = Extraction(j)[f]
                    /\ result[SourceOf(f)] = Provenance(j, f)

C2_Witness ==
  /\ dpc = "done"
  /\ \E i \in failed : \E j \in scanned : \E f \in Fields :
       /\ j > i
       /\ FirstSupplier(j, f)
       /\ result[SourceOf(f)] = Some(CONFIG_FILE_NAMES[j])

----------------------------------------------------------------------------
(* Paths.  A path string is its directory segments, the base of its file   *)
(* name and the extensions after it: "/out/a.js.map" is the absolute path  *)
(* with dirs <<"out">>, base "a", exts <<"js", "map">>.  scheme is "" for  *)
(* a file path, "webpack" for webpack://..., "data" for a data: URL.       *)

File(dirs, base, exts) ==
  [scheme |-> "", abs |-> TRUE, dirs |-> dirs, base |-> base, exts |-> exts]

Rel(dirs, base, exts) ==
  [scheme |-> "", abs |-> FALSE, dirs |-> dirs, base |-> base, exts |-> exts]

Url(scheme, dirs, base, exts) ==
  [scheme |-> scheme, abs |-> FALSE, dirs |-> dirs, base |-> base, exts |-> exts]

\* p + ".map"
PlusMap(p) == [p EXCEPT !.exts = Append(@, "map")]

\* p.endsWith("." + ext)
EndsWith(p, ext) == p.exts # <<>> /\ p.exts[Len(p.exts)] = ext

\* p.startsWith("webpack://")
IsWebpackUrl(p) == p.scheme = "webpack"

\* path.isAbsolute(p)
IsAbsolute(p) == p.abs

\* path normalisation of directory segments: "." dropped, ".." pops
RECURSIVE Normalize(_, _)
Normalize(acc, segs) ==
  IF segs = <<>> THEN acc
  ELSE IF Head(segs) = "." THEN Normalize(acc, Tail(segs))
  ELSE IF Head(segs) = ".."
    THEN Normalize(IF acc = <<>> THEN acc ELSE SubSeq(acc, 1, Len(acc) - 1),
                   Tail(segs))
  ELSE Normalize(Append(acc, Head(segs)), Tail(segs))

\* path.resolve(path.dirname(from), p) for an absolute path from
ResolveFrom(from, p) ==
  IF p.abs THEN [p EXCEPT !.dirs = Normalize(<<>>, @)]
  ELSE [scheme |-> "", abs |-> TRUE,
        dirs |-> Normalize(from.dirs, (IF p.scheme = "" THEN <<>>
                                       ELSE <<p.scheme>>) \o p.dirs),
        base |-> p.base, exts |-> p.exts]

\* fs.existsSync(p)
FileExists(fs, p) == p \in DOMAIN fs /\ fs[p].k # "absent"

----------------------------------------------------------------------------
(* getSourceMapForFile and getOriginalSourceMap *)

\* the generated position getOriginalSourceMap looks up: line 1, column 0
FirstPos == [line |-> 1, column |-> 0]

\* JSON.parse(raw) and new SourceMapConsumer(map) for the map file at p:
\* [threw, consumer]
LoadMap(fs, p) ==
  IF fs[p].k = "map" /\ fs[p].ok
    THEN [threw |-> FALSE, consumer |-> Some([from |-> p, at |-> fs[p].at])]
    ELSE [threw |-> TRUE, consumer |-> None]

\* as getSourceMapForFile, consulting the sourceMappingURL comment before
\* the sidecar file
getSourceMapForFileCommentFirst(fs, jsFile) ==
  LET mapFile == PlusMap(jsFile)
      match == IF fs[jsFile].k = "js" THEN fs[jsFile].comment ELSE None
      mapPath == IF IsAbsolute(Val(match)) THEN Val(match)
                 ELSE ResolveFrom(jsFile, Val(match))
  IN  IF match # None /\ EndsWith(Val(match), "map") /\ FileExists(fs, mapPath)
        THEN LoadMap(fs, mapPath)
      ELSE IF FileExists(fs, mapFile) THEN LoadMap(fs, mapFile)
      ELSE [threw |-> FALSE, consumer |-> None]

\* [threw, consumer]: consumer is None for null
getSourceMapForFile(fs, jsFile) ==
  LET mapFile == PlusMap(jsFile)
  IN  IF FileExists(fs, mapFile) THEN LoadMap(fs, mapFile)
      ELSE
        LET match == IF fs[jsFile].k = "js" THEN fs[jsFile].comment ELSE None
        IN  IF match = None THEN [threw |-> FALSE, consumer |-> None]
            ELSE IF ~EndsWith(Val(match), "map")
              THEN [threw |-> FALSE, consumer |-> None]
            ELSE
              LET mapPath == IF IsAbsolute(Val(match)) THEN Val(match)
                             ELSE ResolveFrom(jsFile, Val(match))
              IN  IF FileExists(fs, mapPath) THEN LoadMap(fs, mapPath)
                  ELSE [threw |-> FALSE, consumer |-> None]

\* consumer.originalPositionFor(pos): None when source, line and column
\* are all null
originalPositionFor(c, pos) == c.at[pos]

\* as FollowChain, following any authored path that exists
FollowChainAnyFile(fs, cur, source) ==
  LET resolvedPath == IF IsAbsolute(source) THEN source
                      ELSE ResolveFrom(cur, source)
  IN  IF FileExists(fs, resolvedPath) THEN Some(resolvedPath) ELSE None

\* the file the loop continues with after a hop whose first position has
\* the authored path source, None when the loop breaks
FollowChain(fs, cur, source) ==
  IF IsWebpackUrl(source) THEN None
  ELSE
    LET resolvedPath == IF IsAbsolute(source) THEN source
                        ELSE ResolveFrom(cur, source)
    IN  IF FileExists(fs, resolvedPath) /\ EndsWith(resolvedPath, "js")
          THEN Some(resolvedPath)
          ELSE None

\* as LiveAfterHop, without consumer.destroy() before the next hop
LiveAfterHopNoDestroy(n, continues) == n + 1

\* the consumers alive after a hop created one: the loop destroys it
\* before it continues with the next file
LiveAfterHop(n, continues) == IF continues THEN (n + 1) - 1 ELSE n + 1

\* one iteration of "while (true)" in getOriginalSourceMap
Hop ==
  /\ UNCHANGED pvars
  /\ mpc = "loop"
  /\ UNCHANGED <<dvars, cvars, rvars>>
  /\ LET out == getSourceMapForFile(mfs, currentFile)
     IN  /\ lastHop' = Some([file |-> currentFile, out |-> out])
         /\ IF out.threw
              THEN /\ mpc' = "threw"
                   /\ UNCHANGED <<currentFile, consumer, originalFile, live>>
            ELSE IF out.consumer = None
              THEN /\ mpc' = "done"
                   /\ consumer' = None
                   /\ UNCHANGED <<currentFile, originalFile, live>>
            ELSE
              LET firstPosition == originalPositionFor(Val(out.consumer), FirstPos)
                  next == IF firstPosition = None THEN None
                          ELSE FollowChain(mfs, currentFile,
                                           Val(firstPosition).source)
              IN  /\ consumer' = out.consumer
                  /\ originalFile' = IF firstPosition = None THEN originalFile
                                     ELSE Some(Val(firstPosition).source)
                  /\ live' = LiveAfterHop(live, next # None)
                  /\ IF next # None
                       THEN \* consumer.destroy(); currentFile = resolvedPath
                            /\ currentFile' = Val(next)
                            /\ mpc' = "loop"
                       ELSE /\ UNCHANGED currentFile
                            /\ mpc' = "done"


----------------------------------------------------------------------------
(* The compiled files, maps and sources the resolver is run on *)

\* the compiled files eslint reports on
FileA == File(<<"out">>, "a", <<"js">>)

FileB == File(<<"out">>, "b", <<"js">>)

\* a compiled file a map of a.js can name as its authored file
FileC == File(<<"out", "lib">>, "c", <<"js">>)

\* an authored source file
FileTs == File(<<"src">>, "x", <<"ts">>)

\* what a sourceMappingURL comment in /out/a.js can say
RelRef == Rel(<<"..", "maps">>, "a", <<"js", "map">>)

AbsRef == File(<<"srv", "maps">>, "a", <<"js", "map">>)

DataRef == Url("data", <<>>, "inline", <<>>)

\* the files those comments name
MapRel == File(<<"maps">>, "a", <<"js", "map">>)

MapAbs == AbsRef

\* the authored paths a map can record
SrcTs == Rel(<<"..", "src">>, "x", <<"ts">>)

SrcWebpack == Url("webpack", <<"app", "src">>, "x", <<"ts">>)

SrcJs == Rel(<<"lib">>, "c", <<"js">>)

SrcAbsJs == FileC

\* recorded by maps of /out/lib/c.js
SrcTsFromLib == Rel(<<"..", "..", "src">>, "x", <<"ts">>)

SrcBackToA == Rel(<<"..">>, "a", <<"js">>)

\* the generated positions eslint reports diagnostics at
PosE == [line |-> 3, column |-> 7]

PosW == [line |-> 5, column |-> 0]

Positions == {FirstPos, PosE, PosW}

\* an authored position
Orig(source, line, column) ==
  Some([source |-> source, line |-> line, column |-> column])

BadMap == [k |-> "map", ok |-> FALSE]

\* a map file: what each generated position maps to
MkMap(first, e, w) ==
  [k |-> "map", ok |-> TRUE,
   at |-> (FirstPos :> first @@ PosE :> e @@ PosW :> w)]

\* a map whose first position records the authored path src, None for none
MapTo(src) ==
  MkMap(IF src = None THEN None ELSE Orig(Val(src), 1, 0), None, None)

JsFile(comment) == [k |-> "js", comment |-> comment]

SourceFile == [k |-> "src"]

Paths == {FileA, PlusMap(FileA), MapRel, MapAbs, FileB, PlusMap(FileB),
          FileC, PlusMap(FileC), FileTs}

\* a file system: what is at each path
MkFs(a, aSide, mRel, mAbs, b, bSide, c, cSide) ==
  [p \in Paths |->
     CASE p = FileA -> a
       [] p = PlusMap(FileA) -> aSide
       [] p = MapRel -> mRel
       [] p = MapAbs -> mAbs
       [] p = FileB -> b
       [] p = PlusMap(FileB) -> bSide
       [] p = FileC -> c
       [] p = PlusMap(FileC) -> cSide
       [] p = FileTs -> SourceFile]

\* the file systems getOriginalSourceMap is run on for /out/a.js
MapFileSystems ==
  { MkFs(JsFile(comment), aSide, mRel, mAbs, Absent, Absent, c, cSide) :
      comment \in {None, Some(RelRef), Some(AbsRef), Some(DataRef)},
      aSide \in {Absent, BadMap} \cup
                { MapTo(src) : src \in {None, Some(SrcTs), Some(SrcWebpack),
                                        Some(SrcJs), Some(SrcAbsJs)} },
      mRel \in {Absent, MapTo(Some(SrcTs))},
      mAbs \in {Absent, MapTo(Some(SrcJs))},
      c \in {Absent, JsFile(None)},
      cSide \in {Absent, BadMap} \cup
                { MapTo(src) : src \in {None, Some(SrcTsFromLib),
                                        Some(SrcBackToA), Some(SrcWebpack)} } }

\* getOriginalSourceMap(jsFile) is called
InitMap ==
  /\ IdlePure
  /\ files = [i \in Candidates |-> Absent]
  /\ ptype = [detected |-> FALSE, type |-> None]
  /\ dpc = "idle"
  /\ idx = 0
  /\ result = EmptyDetection
  /\ scanned = {}
  /\ failed = {}
  /\ env = None
  /\ mfs \in MapFileSystems
  /\ lintOut = [throws |-> FALSE, results |-> <<>>]
  /\ ccfg = None
  /\ cpc = "idle"
  /\ origEnv = None
  /\ envAtEntry = None
  /\ envAtLint = None
  /\ fi = 0
  /\ errors = <<>>
  /\ warnings = <<>>
  /\ mpc = "loop"
  /\ currentFile = FileA
  /\ consumer = None
  /\ originalFile = None
  /\ live = 0
  /\ lastHop = None
  /\ IdleRun

NextMap == Hop

SpecMap == InitMap /\ [][NextMap]_vars


----------------------------------------------------------------------------
(* Properties of getSourceMapForFile and getOriginalSourceMap *)

\* the sidecar of a compiled file: its path with ".map" appended
SidecarOf(js) ==
  [scheme |-> "", abs |-> TRUE, dirs |-> js.dirs, base |-> js.base,
   exts |-> js.exts \o <<"map">>]

\* the file a sourceMappingURL comment of /out/a.js names
NamedBy(ref) ==
  IF ref = AbsRef THEN Some(File(<<"srv", "maps">>, "a", <<"js", "map">>))
  ELSE IF ref = RelRef THEN Some(File(<<"maps">>, "a", <<"js", "map">>))
  ELSE None

OnDisk(p) == p \in DOMAIN mfs /\ mfs[p].k # "absent"

\* C7: map discovery for a compiled file uses the sidecar (compiled path +
\* ".map") whenever it exists; the reference comment of the compiled file
\* is used only when the sidecar is absent, and then the map is read from
\* the path the comment names, taken as absolute or else relative to the
\* directory of the compiled file; without either there is no map.
C7_MapDiscovery ==
  lastHop # None =>
    LET js == Val(lastHop).file
        out == Val(lastHop).out
        side == SidecarOf(js)
        comment == IF mfs[js].k = "js" THEN mfs[js].comment ELSE None
        named == IF comment = None THEN None ELSE NamedBy(Val(comment))
    IN  IF OnDisk(side)
          THEN out.threw \/ (out.consumer # None /\ Val(out.consumer).from = side)
        ELSE IF named # None /\ OnDisk(Val(named))
          THEN out.threw \/ (out.consumer # None
                             /\ Val(out.consumer).from = Val(named))
        ELSE ~out.threw /\ out.consumer = None

\* the map of /out/a.js was read from /maps/a.js.map, which the comment
\* "../maps/a.js.map" names, with no sidecar on disk
C7_Witness ==
  /\ lastHop # None
  /\ Val(lastHop).file = FileA
  /\ ~OnDisk(SidecarOf(FileA))
  /\ mfs[FileA].comment = Some(RelRef)
  /\ Val(lastHop).out.consumer # None
  /\ Val(Val(lastHop).out.consumer).from = MapRel

\* the authored path the map loaded by this hop records for the first
\* position, None when it records none or no map was loaded
HopSource(fs, file) ==
  LET out == getSourceMapForFile(fs, file)
  IN  IF out.threw \/ out.consumer = None THEN None
      ELSE LET first == Val(out.consumer).at[FirstPos]
           IN  IF first = None THEN None ELSE Some(Val(first).source)

\* C9: a hop whose authored path is a webpack:// URL, is not on disk or
\* does not end in .js ends the chain with that hop's map; the chain moves
\* on to the authored path only when it is on disk and ends in .js.
C9_ChainStops ==
  [][(mpc = "loop" /\ HopSource(mfs, currentFile) # None) =>
       LET src == Val(HopSource(mfs, currentFile))
           target == IF src.abs THEN src ELSE ResolveFrom(currentFile, src)
           follows == /\ src.scheme # "webpack"
                      /\ OnDisk(target)
                      /\ target.exts # <<>>
                      /\ target.exts[Len(target.exts)] = "js"
       IN  IF follows
             THEN mpc' = "loop" /\ currentFile' = target
             ELSE /\ mpc' = "done"
                  /\ currentFile' = currentFile
                  /\ consumer' # None
                  /\ originalFile' = Some(src)]_vars

\* the chain moved on from /out/a.js to /out/lib/c.js and stopped there at
\* an authored .ts file
C9_Witness ==
  /\ mpc = "done"
  /\ currentFile = FileC
  /\ consumer # None
  /\ originalFile = Some(SrcTsFromLib)
  /\ OnDisk(FileTs)

----------------------------------------------------------------------------
(* createESLintConfig: the target is validated before ESLint is built *)

\* parseInt's result for a string that does not start with a number
NaN == -1

\* the strings the model uses, each with its characters
Spellings ==
  { <<"", <<>>>>,
    <<"latest", <<"l", "a", "t", "e", "s", "t">>>>,
    <<"invalid", <<"i", "n", "v", "a", "l", "i", "d">>>>,
    <<"ESNext", <<"E", "S", "N", "e", "x", "t">>>>,
    <<"web", <<"w", "e", "b">>>>,
    <<"defaults", <<"d", "e", "f", "a", "u", "l", "t", "s">>>>,
    <<"0", <<"0">>>>,
    <<"2", <<"2">>>>,
    <<"3", <<"3">>>>,
    <<"4", <<"4">>>>,
    <<"5", <<"5">>>>,
    <<"6", <<"6">>>>,
    <<"7", <<"7">>>>,
    <<"11", <<"1", "1">>>>,
    <<"17", <<"1", "7">>>>,
    <<"18", <<"1", "8">>>>,
    <<"1999", <<"1", "9", "9", "9">>>>,
    <<"2009", <<"2", "0", "0", "9">>>>,
    <<"2012", <<"2", "0", "1", "2">>>>,
    <<"2014", <<"2", "0", "1", "4">>>>,
    <<"2015", <<"2", "0", "1", "5">>>>,
    <<"2016", <<"2", "0", "1", "6">>>>,
    <<"2017", <<"2", "0", "1", "7">>>>,
    <<"2018", <<"2", "0", "1", "8">>>>,
    <<"2019", <<"2", "0", "1", "9">>>>,
    <<"2020", <<"2", "0", "2", "0">>>>,
    <<"2021", <<"2", "0", "2", "1">>>>,
    <<"2022", <<"2", "0", "2", "2">>>>,
    <<"2026", <<"2", "0", "2", "6">>>>,
    <<"2027", <<"2", "0", "2", "7">>>>,
    <<"9999", <<"9", "9", "9", "9">>>>,
    <<"ES3", <<"E", "S", "3">>>>,
    <<"ES5", <<"E", "S", "5">>>>,
    <<"es5", <<"e", "s", "5">>>>,
    <<"ES6", <<"E", "S", "6">>>>,
    <<"es6", <<"e", "s", "6">>>>,
    <<"es7", <<"e", "s", "7">>>>,
    <<"ES2015", <<"E", "S", "2", "0", "1", "5">>>>,
    <<"es2015", <<"e", "s", "2", "0", "1", "5">>>>,
    <<"ES2016", <<"E", "S", "2", "0", "1", "6">>>>,
    <<"es2016", <<"e", "s", "2", "0", "1", "6">>>>,
    <<"ES2017", <<"E", "S", "2", "0", "1", "7">>>>,
    <<"es2017", <<"e", "s", "2", "0", "1", "7">>>>,
    <<"ES2018", <<"E", "S", "2", "0", "1", "8">>>>,
    <<"es2018", <<"e", "s", "2", "0", "1", "8">>>>,
    <<"ES2019", <<"E", "S", "2", "0", "1", "9">>>>,
    <<"es2019", <<"e", "s", "2", "0", "1", "9">>>>,
    <<"ES2020", <<"E", "S", "2", "0", "2", "0">>>>,
    <<"es2020", <<"e", "s", "2", "0", "2", "0">>>>,
    <<"ES2021", <<"E", "S", "2", "0", "2", "1">>>>,
    <<"es2021", <<"e", "s", "2", "0", "2", "1">>>>,
    <<"ES2022", <<"E", "S", "2", "0", "2", "2">>>>,
    <<"es2022", <<"e", "s", "2", "0", "2", "2">>>>,
    <<"es9999", <<"e", "s", "9", "9", "9", "9">>>>,
    <<"2020abc", <<"2", "0", "2", "0", "a", "b", "c">>>>,
    <<"notes6", <<"n", "o", "t", "e", "s", "6">>>>,
    <<" 6", <<" ", "6">>>>,
    <<"-6", <<"-", "6">>>> }

\* the characters of a string
Chars(s) == (CHOOSE p \in Spellings : p[1] = s)[2]

DecimalDigits == <<"0", "1", "2", "3", "4", "5", "6", "7", "8", "9">>

IsDigit(c) == \E i \in 1..10 : DecimalDigits[i] = c

DigitValue(c) == (CHOOSE i \in 1..10 : DecimalDigits[i] = c) - 1

\* \d+ from position i: the position after the longest run of digits
RECURSIVE DigitRunEnd(_, _)
DigitRunEnd(cs, i) ==
  IF i <= Len(cs) /\ IsDigit(cs[i]) THEN DigitRunEnd(cs, i + 1) ELSE i

\* the decimal value of a run of digits
RECURSIVE DecimalValue(_)
DecimalValue(ds) ==
  IF ds = <<>> THEN 0
  ELSE 10 * DecimalValue(SubSeq(ds, 1, Len(ds) - 1)) + DigitValue(ds[Len(ds)])

\* Number.prototype.toString for a non-negative integer
RECURSIVE DecimalDigitsOf(_)
DecimalDigitsOf(n) ==
  IF n < 10 THEN <<DecimalDigits[n + 1]>>
  ELSE Append(DecimalDigitsOf(n \div 10), DecimalDigits[(n % 10) + 1])

toString(n) == (CHOOSE p \in Spellings : p[2] = DecimalDigitsOf(n))[1]

\* parseInt skips leading white space
RECURSIVE SkipSpace(_, _)
SkipSpace(cs, i) ==
  IF i <= Len(cs) /\ cs[i] = " " THEN SkipSpace(cs, i + 1) ELSE i

\* parseInt(s): white space, a sign, then the longest run of digits;
\* whatever follows the digits is ignored
parseInt(s) ==
  LET cs    == Chars(s)
      start == SkipSpace(cs, 1)
      neg   == start <= Len(cs) /\ cs[start] = "-"
      from  == IF start <= Len(cs) /\ cs[start] \in {"-", "+"}
                 THEN start + 1 ELSE start
      to    == DigitRunEnd(cs, from)
  IN  IF to = from THEN NaN
      ELSE IF neg THEN 0 - DecimalValue(SubSeq(cs, from, to - 1))
      ELSE DecimalValue(SubSeq(cs, from, to - 1))

\* parseEcmaVersion: [latest |-> TRUE], [num |-> n], or None for null
parseEcmaVersion(target) ==
  IF target = "latest" THEN Some([latest |-> TRUE, num |-> 0])
  ELSE LET num == parseInt(target)
       IN  IF num >= 2015 /\ num <= 2026 THEN Some([latest |-> FALSE, num |-> num])
           ELSE IF num >= 3 /\ num <= 17 THEN Some([latest |-> FALSE, num |-> num])
           ELSE None

validVersions == {3} \cup (5..17) \cup (2015..2026)

isValidEcmaVersion(v) ==
  /\ v # None
  /\ (Val(v).latest \/ Val(v).num \in validVersions)

\* getEcmaVersion throws "Invalid ECMAScript version"
createESLintConfigThrows(target) == ~isValidEcmaVersion(parseEcmaVersion(target))

----------------------------------------------------------------------------
(* checkCompatibility *)

\* !m.message.includes("has no effect because you have 'noInlineConfig'")
isRelevantMessage(m) == ~m.noInline

errorMessagesOf(r) ==
  LET keep(m) == m.severity = 2 /\ isRelevantMessage(m)
  IN  SelectSeq(r.messages, keep)

warningMessagesOf(r) ==
  LET keep(m) == m.severity = 1 /\ isRelevantMessage(m)
  IN  SelectSeq(r.messages, keep)

\* the callback of errorMessages.map / warningMessages.map
remapMessage(msg, sourceMap, origFile) ==
  IF msg.line # None /\ msg.column # None
    THEN LET orig == originalPositionFor(sourceMap,
                       [line |-> Val(msg.line), column |-> Val(msg.column)])
         IN  [msg |-> msg,
              originalFile |-> IF orig # None THEN Some(Val(orig).source)
                               ELSE origFile,
              originalLine |-> IF orig # None THEN Some(Val(orig).line) ELSE None,
              originalColumn |-> IF orig # None /\ Val(orig).column # 0
                                   THEN Some(Val(orig).column) ELSE None]
    ELSE [msg |-> msg, originalFile |-> None, originalLine |-> None,
          originalColumn |-> None]

remapAll(msgs, sourceMap, origFile) ==
  [n \in 1..Len(msgs) |-> remapMessage(msgs[n], sourceMap, origFile)]

\* as PushViolation, reporting a file only when its messages were remapped
PushViolationMappedOnly(list, file, msgs, mapped) ==
  IF Len(msgs) > 0 /\ mapped # None
    THEN Append(list, [file |-> file, messages |-> msgs,
                       sourceMappedMessages |-> mapped])
    ELSE list

\* errors.push / warnings.push for one file
PushViolation(list, file, msgs, mapped) ==
  IF Len(msgs) > 0
    THEN Append(list, [file |-> file, messages |-> msgs,
                       sourceMappedMessages |-> mapped])
    ELSE list

\* the finally block: the original value back, or the variable deleted
RestoreEnv(orig, cur) == IF orig # None THEN orig ELSE None

\* what eslint.lintFiles reports: a syntax error, a compat warning, a notice
\* about an inline directive, a file-level warning without a position, a
\* warning of another rule
MsgError == [ruleId |-> None, severity |-> 2, line |-> Some(PosE.line),
             column |-> Some(PosE.column), noInline |-> FALSE]

MsgWarning == [ruleId |-> Some("compat/compat"), severity |-> 1,
               line |-> Some(PosW.line), column |-> Some(PosW.column),
               noInline |-> FALSE]

MsgNotice == [ruleId |-> None, severity |-> 1, line |-> Some(1),
              column |-> Some(0), noInline |-> TRUE]

MsgFileLevel == [ruleId |-> None, severity |-> 1, line |-> None,
                 column |-> None, noInline |-> FALSE]

MsgOtherRule == [ruleId |-> Some("some-other-rule"), severity |-> 1,
                 line |-> Some(PosW.line), column |-> Some(PosW.column),
                 noInline |-> FALSE]

\* the results eslint.lintFiles can resolve with: none, a.js, a.js and b.js
LintResults ==
  {<<>>}
  \cup { <<[filePath |-> FileA, messages |-> m]>> :
           m \in {<<>>, <<MsgError>>, <<MsgWarning>>, <<MsgError, MsgWarning>>,
                  <<MsgNotice>>, <<MsgFileLevel, MsgError>>,
                  <<MsgOtherRule, MsgWarning>>} }
  \cup { <<[filePath |-> FileA, messages |-> m],
           [filePath |-> FileB, messages |-> n]>> :
           m \in {<<>>, <<MsgError>>, <<MsgError, MsgWarning>>},
           n \in {<<>>, <<MsgError>>, <<MsgWarning>>} }

\* the call reaches the end of the for loop or moves to the next result
AdvanceFile ==
  IF fi = Len(lintOut.results)
    THEN /\ cpc' = "returned"
         /\ env' = RestoreEnv(origEnv, env)
         /\ UNCHANGED fi
    ELSE /\ cpc' = "file"
         /\ fi' = fi + 1
         /\ UNCHANGED env

\* entry of checkCompatibility up to "await eslint.lintFiles([config.dir])"
CheckStart ==
  /\ UNCHANGED pvars
  /\ cpc = "call"
  /\ origEnv' = env
  /\ envAtEntry' = env
  /\ env' = IF TruthyQuery(Val(ccfg).browsers) THEN Val(ccfg).browsers ELSE env
  /\ IF createESLintConfigThrows(Val(ccfg).target)
       THEN cpc' = "threw" /\ UNCHANGED envAtLint
       ELSE cpc' = "linting" /\ envAtLint' = Some(env')
  /\ errors' = <<>>
  /\ warnings' = <<>>
  /\ UNCHANGED <<mfs, lintOut, ccfg, fi, dvars, mvars, rvars>>

\* eslint.lintFiles rejects: catch, finally, return { errors, warnings }
LintThrows ==
  /\ UNCHANGED pvars
  /\ cpc = "linting"
  /\ lintOut' = [throws |-> TRUE, results |-> <<>>]
  /\ cpc' = "returned"
  /\ env' = RestoreEnv(origEnv, env)
  /\ UNCHANGED <<mfs, ccfg, origEnv, envAtEntry, envAtLint, fi,
                 errors, warnings, dvars, mvars, rvars>>

\* createESLintConfig: "compat/compat": skipCompatWarnings ? "off" : "warn"
CompatRule(skipCompatWarnings) ==
  IF skipCompatWarnings = Some(TRUE) THEN "off" ELSE "warn"

\* the rule setting of the ESLint instance checkCompatibility builds:
\* createESLintConfig(config.target, config.browsers), no third argument
EngineCompatRule(config) == CompatRule(None)

\* a rule that is off yields no message
HonoursRule(results, rule) ==
  rule = "off" =>
    \A i \in 1..Len(results) : \A n \in 1..Len(results[i].messages) :
      results[i].messages[n].ruleId # Some("compat/compat")

\* eslint.lintFiles resolves with the results of the files it linted
LintReturns ==
  /\ UNCHANGED pvars
  /\ cpc = "linting"
  /\ \E results \in LintResults :
       /\ HonoursRule(results, EngineCompatRule(Val(ccfg)))
       /\ lintOut' = [throws |-> FALSE, results |-> results]
       /\ IF Len(results) = 0
            THEN /\ cpc' = "returned"
                 /\ env' = RestoreEnv(origEnv, env)
                 /\ UNCHANGED fi
            ELSE /\ cpc' = "file"
                 /\ fi' = 1
                 /\ UNCHANGED env
  /\ UNCHANGED <<mfs, ccfg, origEnv, envAtEntry, envAtLint,
                 errors, warnings, dvars, mvars, rvars>>

\* the loop body for one lint result, up to "await getOriginalSourceMap"
FileBegin ==
  /\ UNCHANGED pvars
  /\ cpc = "file"
  /\ LET r == lintOut.results[fi]
     IN  IF Len(errorMessagesOf(r)) > 0 \/ Len(warningMessagesOf(r)) > 0
           THEN /\ cpc' = "resolve"
                /\ mpc' = "loop"
                /\ currentFile' = r.filePath
                /\ consumer' = None
                /\ originalFile' = None
                /\ UNCHANGED <<env, fi, live, lastHop>>
           ELSE /\ AdvanceFile
                /\ UNCHANGED mvars
  /\ UNCHANGED <<mfs, lintOut, ccfg, origEnv, envAtEntry, envAtLint,
                 errors, warnings, dvars, rvars>>

\* getOriginalSourceMap returned: remap, destroy, push
FileRemap ==
  /\ UNCHANGED pvars
  /\ cpc = "resolve"
  /\ mpc = "done"
  /\ LET r == lintOut.results[fi]
         em == errorMessagesOf(r)
         wm == warningMessagesOf(r)
         mappedE == IF consumer # None /\ Len(em) > 0
                      THEN Some(remapAll(em, Val(consumer), originalFile))
                      ELSE None
         mappedW == IF consumer # None /\ Len(wm) > 0
                      THEN Some(remapAll(wm, Val(consumer), originalFile))
                      ELSE None
     IN  /\ errors' = PushViolation(errors, r.filePath, em, mappedE)
         /\ warnings' = PushViolation(warnings, r.filePath, wm, mappedW)
         /\ live' = IF consumer # None THEN live - 1 ELSE live
  /\ mpc' = "idle"
  /\ AdvanceFile
  /\ UNCHANGED <<mfs, lintOut, ccfg, origEnv, envAtEntry, envAtLint,
                 currentFile, consumer, originalFile, lastHop, dvars, rvars>>

\* getOriginalSourceMap rejected: catch, finally, return { errors, warnings }
ResolveThrew ==
  /\ UNCHANGED pvars
  /\ cpc = "resolve"
  /\ mpc = "threw"
  /\ cpc' = "returned"
  /\ mpc' = "idle"
  /\ env' = RestoreEnv(origEnv, env)
  /\ UNCHANGED <<mfs, lintOut, ccfg, origEnv, envAtEntry, envAtLint, fi,
                 errors, warnings, currentFile, consumer, originalFile, live,
                 lastHop, dvars, rvars>>

----------------------------------------------------------------------------
(* The calls of checkCompatibility *)

\* an authored position of a diagnostic
OrigE == Orig(SrcTs, 10, 4)

\* an authored position in column 0
OrigW == Orig(SrcTs, 12, 0)

CheckMapsOfA ==
  { MkMap(IF src = None THEN None ELSE Orig(Val(src), 1, 0), d.e, d.w) :
      src \in {None, Some(SrcTs), Some(SrcWebpack), Some(SrcJs)},
      d \in {[e |-> None, w |-> None], [e |-> OrigE, w |-> OrigW]} }

\* the directory that is linted: a.js and b.js with and without maps
CheckFileSystems ==
  { MkFs(JsFile(None), aSide, Absent, Absent, JsFile(None), bSide,
         JsFile(None), cSide) :
      aSide \in {Absent, BadMap} \cup CheckMapsOfA,
      bSide \in {Absent, BadMap, MkMap(None, Orig(SrcTs, 20, 2), None)},
      cSide \in {Absent,
                 MkMap(Orig(SrcTsFromLib, 1, 0), Orig(SrcTsFromLib, 30, 1), None)} }
  \cup
  { MkFs(JsFile(Some(RelRef)), Absent, mRel, Absent, JsFile(None), Absent,
         Absent, Absent) :
      mRel \in {Absent, MkMap(Orig(SrcTs, 1, 0), OrigE, None)} }

\* the Config argument: dir, target, browsers
CheckConfigs ==
  { [dir |-> <<"out">>, target |-> t, browsers |-> b] :
      t \in {"2020", "2009"},
      b \in {None, Some(<<>>), Some(<<"ie 11">>)} }

\* checkCompatibility(config) is called
InitCheck ==
  /\ IdlePure
  /\ files = [i \in Candidates |-> Absent]
  /\ ptype = [detected |-> FALSE, type |-> None]
  /\ dpc = "idle"
  /\ idx = 0
  /\ result = EmptyDetection
  /\ scanned = {}
  /\ failed = {}
  /\ env \in {None, Some(<<"defaults">>)}
  /\ mfs \in CheckFileSystems
  /\ lintOut = [throws |-> FALSE, results |-> <<>>]
  /\ ccfg \in { Some(c) : c \in CheckConfigs }
  /\ cpc = "call"
  /\ origEnv = None
  /\ envAtEntry = None
  /\ envAtLint = None
  /\ fi = 0
  /\ errors = <<>>
  /\ warnings = <<>>
  /\ IdleMap
  /\ IdleRun

NextCheck ==
  \/ CheckStart
  \/ LintThrows
  \/ LintReturns
  \/ FileBegin
  \/ Hop
  \/ FileRemap
  \/ ResolveThrew

SpecCheck == InitCheck /\ [][NextCheck]_vars

----------------------------------------------------------------------------
(* Properties of checkCompatibility *)

Ended == cpc \in {"returned", "threw"}

\* C3: eslint.lintFiles runs with BROWSERSLIST set to config.browsers, and
\* however the call ends (return or failure) BROWSERSLIST is what it was
\* when the call was entered: the same value, or unset.
C3_EnvScoped ==
  /\ (cpc = "linting" /\ Val(ccfg).browsers \notin {None, Some(<<>>)}) =>
       env = Val(ccfg).browsers
  /\ Ended => env = envAtEntry

\* a violation entry carries no authored file, line or column
NoAuthored(v) ==
  \/ v.sourceMappedMessages = None
  \/ \A n \in 1..Len(Val(v.sourceMappedMessages)) :
       LET m == Val(v.sourceMappedMessages)[n]
       IN  m.originalFile = None /\ m.originalLine = None
           /\ m.originalColumn = None

\* the diagnostics msgs of the file were added to the list as eslint gave
\* them, with their compiled line and column
Reported(new, old, file, msgs) ==
  IF msgs = <<>> THEN new = old
  ELSE /\ Len(new) = Len(old) + 1
       /\ SubSeq(new, 1, Len(old)) = old
       /\ new[Len(new)].file = file
       /\ new[Len(new)].messages = msgs

\* a message of the entry added last has authored data although the map
\* has no entry for the message's own position
AuthoredWithoutEntry(list, map) ==
  /\ list # <<>>
  /\ list[Len(list)].sourceMappedMessages # None
  /\ \E n \in 1..Len(list[Len(list)].messages) :
       LET msg == list[Len(list)].messages[n]
           m == Val(list[Len(list)].sourceMappedMessages)[n]
       IN  /\ \/ msg.line = None
              \/ msg.column = None
              \/ map.at[[line |-> Val(msg.line), column |-> Val(msg.column)]] = None
           /\ ~(m.originalFile = None /\ m.originalLine = None
                /\ m.originalColumn = None)

\* the resolution of the current file ended with no map, or with no
\* authored file recorded
EndsWithoutAuthoredFile ==
  cpc = "resolve" /\ mpc = "done" /\ (consumer = None \/ originalFile = None)

C10_OneConsumerReleased ==
  /\ live \in {0, 1}
  /\ mpc \in {"loop", "threw"} => live = 0
  /\ cpc # "resolve" => live = 0
  /\ live = 1 => consumer # None

\* the chain a.js -> lib/c.js created two consumers, and the call has
\* ended with none live
C10_Witness ==
  /\ cpc = "returned"
  /\ lastHop # None
  /\ Val(lastHop).file = FileC
  /\ Val(lastHop).out.consumer # None
  /\ errors # <<>>
  /\ live = 0

----------------------------------------------------------------------------
(* runESGuard *)

\* detectProjectConfig(cwd) as one call: the loop over the candidates from
\* index i on
RECURSIVE DetectFrom(_, _, _, _)
DetectFrom(fs, res, pt, i) ==
  IF Later(fs, i) = {} THEN [result |-> res, pt |-> pt]
  ELSE LET j == Min(Later(fs, i))
           step == ScanCandidate(fs, res, pt, j)
       IN  IF step.stop THEN [result |-> step.result, pt |-> step.pt]
           ELSE DetectFrom(fs, step.result, step.pt, j)

detectProjectConfig(fs, pt) == DetectFrom(fs, EmptyDetection, pt, 0)

\* getBrowserTargets(target)
getBrowserTargets(v) ==
  IF v = None THEN <<"> 1%", "last 2 versions", "not dead">>
  ELSE IF Val(v).latest
    THEN <<"> 1%", "last 2 versions", "not dead", "not ie 11",
           "not op_mini all", "not android < 67">>
  ELSE LET n == Val(v).num
       IN  CASE n = 3 -> <<"> 0.1%", "ie 6">>
             [] n = 5 -> <<"> 0.5%", "ie 8">>
             [] n \in {6, 2015} ->
                  <<"> 1%", "last 2 versions", "not dead", "ie 11">>
             [] n \in {7, 8, 2016, 2017} ->
                  <<"> 1%", "last 2 versions", "not dead", "not ie 11">>
             [] n \in {9, 10, 2018, 2019} ->
                  <<"> 1%", "last 2 versions", "not dead", "not ie 11",
                    "not op_mini all">>
             [] n \in (11..17) \cup (2020..2026) ->
                  <<"> 1%", "last 2 versions", "not dead", "not ie 11",
                    "not op_mini all", "not android < 67">>
             [] OTHER -> <<"> 1%", "last 2 versions", "not dead">>

getBrowserTargetsFromString(target) == getBrowserTargets(parseEcmaVersion(target))

\* list.join(", ") as a query string
Join(list) == IF list = <<"">> THEN <<>> ELSE list

\* options.workingDir || process.cwd()
workingDir == "/proj"

\* the directory strings that are absolute paths
AbsoluteDirs == {"/srv/out"}

\* path.isAbsolute(dir) ? dir : path.join(workingDir, dir)
ResolveDir(dir) ==
  IF dir \in AbsoluteDirs THEN [under |-> "", name |-> dir]
  ELSE [under |-> workingDir, name |-> dir]

\* "Handle directory detection"
ScanDirectoryOf(o, det) ==
  IF ~TruthyStr(o.directory)
    THEN IF TruthyStr(det.outputDir) THEN ResolveDir(Val(det.outputDir))
         ELSE ResolveDir("dist")
    ELSE ResolveDir(Val(o.directory))

\* as ValidateDirectory, accepting whatever is at the path
ValidateDirectoryAny(dk, dir) == None

\* "Validate directory exists": the error thrown, None for none
ValidateDirectory(dk, dir) ==
  IF dir \notin DOMAIN dk \/ dk[dir] = "missing" THEN Some("does not exist")
  ELSE IF dk[dir] # "dir" THEN Some("is not a directory")
  ELSE None

\* as TargetOf, preferring the detected target
TargetOfDetectedFirst(o, det) ==
  IF TruthyStr(det.target) THEN det.target
  ELSE IF TruthyStr(o.target) THEN o.target
  ELSE None

\* "Handle target detection": None when the run throws "No target specified"
TargetOf(o, det) ==
  IF TruthyStr(o.target) THEN o.target
  ELSE IF TruthyStr(det.target) THEN det.target
  ELSE None

\* "Handle browser targets detection"
BrowserTargetsOf(o, det, target) ==
  IF TruthyQuery(o.browsers) THEN Val(o.browsers)
  ELSE IF TruthyArr(det.browserslist) THEN Join(Val(det.browserslist))
  ELSE getBrowserTargetsFromString(target)

\* as SuccessOf, with warnings counted as failures
SuccessOfNoWarnings(errs, warns, o) ==
  (Len(errs) = 0 /\ Len(warns) = 0) \/ (IF o.skip # None THEN Val(o.skip) ELSE FALSE)

\* errors.length === 0 || (options.skip ?? false)
SuccessOf(errs, warns, o) ==
  Len(errs) = 0 \/ (IF o.skip # None THEN Val(o.skip) ELSE FALSE)

\* runESGuard from its entry to the call of checkCompatibility
RunBegin ==
  /\ UNCHANGED pvars
  /\ rpc = "call"
  /\ \E d \in {detectProjectConfig(files,
                    IF Val(opts).verbose
                      THEN getCurrentProjectType(files[1], ptype).pt
                      ELSE ptype)} :
     LET o == Val(opts)
         scanDirectory == ScanDirectoryOf(o, d.result)
         invalid == ValidateDirectory(disk, scanDirectory)
         target == TargetOf(o, d.result)
     IN  /\ result' = d.result
         /\ ptype' = d.pt
         /\ IF invalid # None
              THEN /\ rpc' = "threw"
                   /\ ret' = Some([error |-> Val(invalid)])
                   /\ UNCHANGED <<ccfg, cpc>>
            ELSE IF target = None
              THEN /\ rpc' = "threw"
                   /\ ret' = Some([error |-> "No target specified"])
                   /\ UNCHANGED <<ccfg, cpc>>
            ELSE /\ rpc' = "checking"
                 /\ ccfg' = Some([dir |-> scanDirectory, target |-> Val(target),
                                  browsers |->
                                    Some(BrowserTargetsOf(o, d.result, Val(target)))])
                 /\ cpc' = "call"
                 /\ UNCHANGED ret
  /\ UNCHANGED <<files, dpc, idx, scanned, failed, env, mfs, lintOut, origEnv,
                 envAtEntry, envAtLint, fi, errors, warnings, mvars, opts, disk>>

\* checkCompatibility returned: success, statistics, the result
RunFinish ==
  /\ UNCHANGED pvars
  /\ rpc = "checking"
  /\ cpc = "returned"
  /\ rpc' = "returned"
  /\ ret' = Some([success |-> SuccessOf(errors, warnings, Val(opts)),
                  errors |-> errors,
                  warnings |-> warnings,
                  scanDirectory |-> Val(ccfg).dir,
                  target |-> Val(ccfg).target,
                  browserTargets |-> Val(Val(ccfg).browsers)])
  /\ UNCHANGED <<dvars, cvars, mvars, opts, disk>>

\* checkCompatibility threw: the catch block logs and rethrows
RunRethrow ==
  /\ UNCHANGED pvars
  /\ rpc = "checking"
  /\ cpc = "threw"
  /\ rpc' = "threw"
  /\ ret' = Some([error |-> "Invalid ECMAScript version"])
  /\ UNCHANGED <<dvars, cvars, mvars, opts, disk>>

----------------------------------------------------------------------------
(* The runs of runESGuard *)

RunPackageJsons ==
  {Absent,
   [k |-> "json",
    obj |-> [t |-> "pkg",
             browserslist |-> Some([arr |-> TRUE,
                                    items |-> <<Item("defaults"), Item("not dead")>>]),
             dist |-> Some("lib"), build |-> None, main |-> None, deps |-> {}]],
   [k |-> "json",
    obj |-> [t |-> "pkg", browserslist |-> None, dist |-> None, build |-> None,
             main |-> None, deps |-> {"next", "vite"}]]}

RunTsConfigs ==
  {Absent,
   [k |-> "json", obj |-> [t |-> "ts", hasCompilerOptions |-> TRUE,
                           target |-> Some("ES6"), outDir |-> Some("out")]],
   [k |-> "json", obj |-> [t |-> "ts", hasCompilerOptions |-> TRUE,
                           target |-> Some("ES5"), outDir |-> Some("out")]]}

\* project directories with a package.json and a tsconfig.json
RunProjects ==
  { [i \in Candidates |-> IF i = 1 THEN pkg ELSE IF i = 4 THEN ts ELSE Absent] :
      pkg \in RunPackageJsons, ts \in RunTsConfigs }

RunOptions ==
  { [target |-> t, browsers |-> b, directory |-> d, skip |-> sk, verbose |-> v] :
      t \in {None, Some(""), Some("2020"), Some("2009"), Some("6")},
      b \in {None, Some(<<"ie 11">>)},
      d \in {None, Some("build"), Some("/srv/out")},
      sk \in {None, Some(TRUE)},
      v \in BOOLEAN }

ExplicitDirs == {ResolveDir("build"), ResolveDir("/srv/out")}

DetectedDirs == {ResolveDir("lib"), ResolveDir("out"), ResolveDir(".next/static"),
                 ResolveDir("dist")}

\* what is on disk at the directories a run can ask for
Disks ==
  { [d \in ExplicitDirs \cup DetectedDirs |-> k] : k \in {"dir", "missing", "file"} }
  \cup
  { [d \in ExplicitDirs \cup DetectedDirs |->
       IF d \in ExplicitDirs THEN "dir" ELSE "missing"] }

\* runESGuard(options) is called
InitRun ==
  /\ IdlePure
  /\ files \in RunProjects
  /\ ptype = [detected |-> FALSE, type |-> None]
  /\ dpc = "idle"
  /\ idx = 0
  /\ result = EmptyDetection
  /\ scanned = {}
  /\ failed = {}
  /\ env = None
  /\ mfs \in { MkFs(JsFile(None), aSide, Absent, Absent, JsFile(None), Absent,
                    Absent, Absent) :
               aSide \in {Absent, BadMap} }
  /\ lintOut = [throws |-> FALSE, results |-> <<>>]
  /\ ccfg = None
  /\ cpc = "idle"
  /\ origEnv = None
  /\ envAtEntry = None
  /\ envAtLint = None
  /\ fi = 0
  /\ errors = <<>>
  /\ warnings = <<>>
  /\ IdleMap
  /\ opts \in { Some(o) : o \in RunOptions }
  /\ disk \in Disks
  /\ rpc = "call"
  /\ ret = None

NextRun ==
  \/ RunBegin
  \/ CheckStart
  \/ LintThrows
  \/ LintReturns
  \/ FileBegin
  \/ Hop
  \/ FileRemap
  \/ ResolveThrew
  \/ RunFinish
  \/ RunRethrow

SpecRun == InitRun /\ [][NextRun]_vars

----------------------------------------------------------------------------
(* Properties of runESGuard *)

\* the run is past its validation of the directory and the target
Started == rpc \in {"checking", "returned", "threw"}

\* the directory the run has to scan: the explicit one, else the detected
\* one, else dist, below the working directory unless absolute
AskedDirectory ==
  LET o == Val(opts)
      name == IF o.directory \notin {None, Some("")} THEN Val(o.directory)
              ELSE IF result.outputDir \notin {None, Some("")}
                THEN Val(result.outputDir)
              ELSE "dist"
  IN  [under |-> IF name = "/srv/out" THEN "" ELSE "/proj", name |-> name]

\* what is on disk at the directory the run has to scan
AskedKind ==
  IF AskedDirectory \in DOMAIN disk THEN disk[AskedDirectory] ELSE "missing"

NoTargetAvailable ==
  /\ Val(opts).target \in {None, Some("")}
  /\ result.target \in {None, Some("")}

EngineNeverInvoked ==
  /\ cpc = "idle"
  /\ ccfg = None
  /\ envAtLint = None
  /\ env = None

\* C4: when the directory to scan does not exist or is not a directory, or
\* neither the options nor detection give a target, the run has thrown and
\* checkCompatibility was not called (so eslint.lintFiles never ran).
C4_AbortBeforeEngine ==
  (Started /\ (AskedKind # "dir" \/ NoTargetAvailable)) =>
    (rpc = "threw" /\ EngineNeverInvoked /\ ret # None
     /\ Val(ret).error \in {"does not exist", "is not a directory",
                            "No target specified"})

\* the run threw because the directory to scan is a plain file
C4_Witness ==
  /\ rpc = "threw"
  /\ AskedKind = "file"
  /\ Val(ret).error = "is not a directory"
  /\ EngineNeverInvoked

Returned == rpc = "returned"

\* C5 as stated: success is true exactly when there is no blocking
\* diagnostic.
C5_Original ==
  Returned => (Val(ret).success <=> Val(ret).errors = <<>>)

\* C5 (amended): success is true exactly when there is no blocking
\* diagnostic or the skip option is set; warnings do not affect it.
C5_SuccessUnlessErrors ==
  Returned =>
    (Val(ret).success <=>
       (Val(ret).errors = <<>> \/ Val(opts).skip = Some(TRUE)))

\* a run without the skip option returned warnings only, with success
C5_Witness ==
  /\ Returned
  /\ Val(opts).skip = None
  /\ Val(ret).errors = <<>>
  /\ Val(ret).warnings # <<>>
  /\ Val(ret).success

\* C6: an explicit (non-empty) target, browsers list or directory in the
\* options is what checkCompatibility is called with and what the result
\* holds, whatever detection found; a relative directory is taken below
\* the working directory.
C6_ExplicitWins ==
  LET o == Val(opts)
      given == [target |-> o.target \notin {None, Some("")},
                browsers |-> o.browsers \notin {None, Some(<<>>)},
                directory |-> o.directory \notin {None, Some("")}]
      dir == [under |-> IF Val(o.directory) = "/srv/out" THEN "" ELSE "/proj",
              name |-> Val(o.directory)]
  IN  /\ ccfg # None =>
           /\ given.target => Val(ccfg).target = Val(o.target)
           /\ given.browsers => Val(ccfg).browsers = o.browsers
           /\ given.directory => Val(ccfg).dir = dir
      /\ Returned =>
           /\ given.target => Val(ret).target = Val(o.target)
           /\ given.browsers => Val(ret).browserTargets = Val(o.browsers)
           /\ given.directory => Val(ret).scanDirectory = dir

\* a run with explicit target, browsers and directory returned them,
\* although detection found another target, list and output directory
C6_Witness ==
  /\ Returned
  /\ Val(opts).target = Some("2020")
  /\ Val(opts).browsers = Some(<<"ie 11">>)
  /\ Val(opts).directory = Some("build")
  /\ result.target = Some("2015")
  /\ result.outputDir # None
  /\ result.browserslist # None
  /\ Val(ret).target = "2020"
  /\ Val(ret).scanDirectory = [under |-> "/proj", name |-> "build"]

----------------------------------------------------------------------------
(* Properties of the remapped position *)

\* the longest map chain followed for one compiled file
MaxLinks == 3

\* the maps loaded along the chain that starts at file, shallowest first
RECURSIVE ResolvedLinks(_, _, _)
ResolvedLinks(fs, file, fuel) ==
  LET out == getSourceMapForFile(fs, file)
  IN  IF fuel = 0 \/ out.threw \/ out.consumer = None THEN <<>>
      ELSE LET c == Val(out.consumer)
               first == c.at[FirstPos]
               next == IF first = None THEN None
                       ELSE FollowChain(fs, file, Val(first).source)
           IN  <<c>> \o (IF next = None THEN <<>>
                         ELSE ResolvedLinks(fs, Val(next), fuel - 1))

\* the authored file and line a diagnostic gets from the links: those of
\* the deepest link's entry for its position, else the file the
\* shallowest link records, else nothing
AuthoredFrom(links, msg) ==
  IF links = <<>> \/ msg.line = None \/ msg.column = None
    THEN [file |-> None, line |-> None]
  ELSE LET deep == links[Len(links)].at[[line |-> Val(msg.line),
                                         column |-> Val(msg.column)]]
           shallow == links[1].at[FirstPos]
       IN  IF deep # None
             THEN [file |-> Some(Val(deep).source), line |-> Some(Val(deep).line)]
           ELSE [file |-> IF shallow # None THEN Some(Val(shallow).source)
                          ELSE None,
                 line |-> None]

\* the authored file and line of message n in a violation entry
AuthoredIn(v, n) ==
  IF v.sourceMappedMessages = None THEN [file |-> None, line |-> None]
  ELSE [file |-> Val(v.sourceMappedMessages)[n].originalFile,
        line |-> Val(v.sourceMappedMessages)[n].originalLine]

\* C11: the authored position of a diagnostic is the entry of the deepest
\* resolved link of the chain for its line and column; when that entry
\* has no file or line the file is the one the shallowest link records;
\* when no link resolved the diagnostic has no authored position.  Every
\* entry keeps the compiled position (Reported).
C11_DeepestThenShallowest ==
  [][(cpc = "resolve" /\ mpc = "done") =>
       LET r == lintOut.results[fi]
           em == errorMessagesOf(r)
           wm == warningMessagesOf(r)
           links == ResolvedLinks(mfs, r.filePath, MaxLinks)
       IN  /\ Reported(errors', errors, r.filePath, em)
           /\ Reported(warnings', warnings, r.filePath, wm)
           /\ \A n \in 1..Len(em) :
                AuthoredIn(errors'[Len(errors')], n) = AuthoredFrom(links, em[n])
           /\ \A n \in 1..Len(wm) :
                AuthoredIn(warnings'[Len(warnings')], n) = AuthoredFrom(links, wm[n])
    ]_vars

----------------------------------------------------------------------------
(* formatViolationMessage *)

\* no detectProjectConfig call is under way
IdleDetect ==
  /\ files = [i \in Candidates |-> Absent]
  /\ ptype = [detected |-> FALSE, type |-> None]
  /\ dpc = "idle"
  /\ idx = 0
  /\ result = EmptyDetection
  /\ scanned = {}
  /\ failed = {}

\* baseDir: the directory segments of the working directory
baseDir == <<"proj">>

\* originalFile.match(/webpack:\/\/[^/]*\/(.+)$/): the path after the
\* first segment of the URL, None without a match
ExtractedPath(url) ==
  IF url.dirs = <<>> THEN None
  ELSE Some(Rel(Tail(url.dirs), url.base, url.exts))

\* path.join(baseDir, prefix, p)
JoinBase(prefix, p) ==
  File(Normalize(baseDir \o prefix, p.dirs), p.base, p.exts)

possiblePaths(extractedPath) ==
  <<JoinBase(<<>>, extractedPath),
    JoinBase(<<"src">>, extractedPath),
    JoinBase(<<"app">>, extractedPath),
    JoinBase(<<"pages">>, extractedPath),
    JoinBase(<<"components">>, extractedPath)>>

\* the for loop over possiblePaths: the first that exists, None for none
FirstExisting(paths, onDisk) ==
  IF \E n \in 1..Len(paths) : paths[n] \in onDisk
    THEN Some(paths[CHOOSE n \in 1..Len(paths) :
                      /\ paths[n] \in onDisk
                      /\ \A m \in 1..(n - 1) : paths[m] \notin onDisk])
    ELSE None

\* sourceMappedMessage?.originalFile && sourceMappedMessage?.originalLine
HasOriginal(smm) ==
  /\ smm # None
  /\ Val(smm).originalFile # None
  /\ Val(smm).originalLine # None
  /\ Val(Val(smm).originalLine) # 0

\* the first if / else if chain: [filePath, line, canReadSource]
SourceToRead(message, smm, explicitFilePath, onDisk) ==
  IF explicitFilePath # None
    THEN [filePath |-> explicitFilePath, line |-> message.line,
          canReadSource |-> Val(explicitFilePath) \in onDisk]
  ELSE IF HasOriginal(smm)
    THEN LET origFile == Val(Val(smm).originalFile)
         IN  IF IsWebpackUrl(origFile)
               THEN LET match == ExtractedPath(origFile)
                        found == IF match = None THEN None
                                 ELSE FirstExisting(possiblePaths(Val(match)), onDisk)
                    IN  [filePath |-> found, line |-> Val(smm).originalLine,
                         canReadSource |-> found # None]
               ELSE LET filePath == IF IsAbsolute(origFile) THEN origFile
                                    ELSE JoinBase(<<>>, origFile)
                    IN  [filePath |-> Some(filePath),
                         line |-> Val(smm).originalLine,
                         canReadSource |-> filePath \in onDisk]
  ELSE [filePath |-> None,
        line |-> IF message.line \notin {None, Some(0)}
                    /\ message.column \notin {None, Some(0)}
                   THEN message.line ELSE None,
        canReadSource |-> FALSE]

\* as LinkIndicator, without the test of canReadSource for webpack:// paths
LinkIndicatorAlwaysSrc(file, src) ==
  IF IsWebpackUrl(file) THEN "[src]"
  ELSE IF src.canReadSource /\ src.filePath # None THEN "[src]"
  ELSE "[file]"

\* linkIndicator
LinkIndicator(file, src) ==
  IF IsWebpackUrl(file)
    THEN (IF src.canReadSource THEN "[src]" ELSE "[map]")
  ELSE IF src.canReadSource /\ src.filePath # None THEN "[src]"
  ELSE "[file]"

\* the formatted message: the compiled line and column, the indicator and
\* the path shown after "Original:" (as a file:// link or as plain text),
\* and whether a code frame is printed
formatViolationMessage(message, smm, explicitFilePath, onDisk, minified) ==
  LET src == SourceToRead(message, smm, explicitFilePath, onDisk)
      codeFrame == /\ src.filePath # None
                   /\ src.canReadSource
                   /\ src.line \notin {None, Some(0)}
                   /\ Val(src.filePath) \notin minified
      lineCol == [line |-> message.line, column |-> message.column]
  IN  IF HasOriginal(smm)
        THEN LET origFile == Val(Val(smm).originalFile)
                 linkPath == IF src.canReadSource /\ src.filePath # None
                               THEN src.filePath ELSE None
                 clickable == linkPath # None /\ Val(linkPath) \in onDisk
             IN  [lineCol |-> lineCol,
                  indicator |-> Some(LinkIndicator(origFile, src)),
                  link |-> clickable,
                  shown |-> IF clickable THEN linkPath ELSE Some(origFile),
                  originalLine |-> Val(smm).originalLine,
                  originalCol |-> IF Val(smm).originalColumn = None THEN 0
                                  ELSE Val(Val(smm).originalColumn),
                  codeFrame |-> codeFrame]
        ELSE [lineCol |-> lineCol, indicator |-> None, link |-> FALSE,
              shown |-> None, originalLine |-> None, originalCol |-> 0,
              codeFrame |-> codeFrame]

\* formatViolationMessage is called and returns
FormatMessage ==
  /\ pcall # None
  /\ Val(pcall).fn = "formatViolationMessage"
  /\ pret = None
  /\ pret' = Some(formatViolationMessage(Val(pcall).message, Val(pcall).smm,
                                         Val(pcall).explicitFilePath,
                                         Val(pcall).onDisk, Val(pcall).minified))
  /\ UNCHANGED <<pcall, dvars, cvars, mvars, rvars>>

\* the authored files below the working directory
ProjSrc == File(<<"proj", "src">>, "x", <<"ts">>)

ProjAppSrc == File(<<"proj", "app", "src">>, "x", <<"ts">>)

\* what checkCompatibility can put into a source-mapped message
SourceMappedMessages ==
  {None}
  \cup { Some([originalFile |-> f, originalLine |-> l, originalColumn |-> c]) :
           f \in {None, Some(SrcWebpack), Some(Rel(<<"src">>, "x", <<"ts">>)),
                  Some(Url("webpack", <<>>, "x", <<"ts">>))},
           l \in {None, Some(10)},
           c \in {None, Some(4)} }

FormatCalls ==
  { [fn |-> "formatViolationMessage", message |-> m, smm |-> smm,
     explicitFilePath |-> x, onDisk |-> d, minified |-> mini] :
      m \in {MsgError, MsgWarning, MsgFileLevel},
      smm \in SourceMappedMessages,
      x \in {None, Some(FileA)},
      d \in SUBSET {ProjSrc, ProjAppSrc, FileA},
      mini \in {{}, {ProjSrc, FileA}} }

InitFormat ==
  /\ IdleDetect
  /\ IdleCheck
  /\ IdleMap
  /\ IdleRun
  /\ pcall \in { Some(c) : c \in FormatCalls }
  /\ pret = None

NextFormat == FormatMessage

SpecFormat == InitFormat /\ [][NextFormat]_vars

\* the remapped message names a webpack:// authored file
WebpackOriginal ==
  /\ pret # None
  /\ HasOriginal(Val(pcall).smm)
  /\ Val(Val(Val(pcall).smm).originalFile).scheme = "webpack"

\* the authored file is shown as a label that is not readable on disk
ShownAsLabel ==
  /\ Val(pret).indicator = Some("[map]")
  /\ ~Val(pret).link
  /\ Val(pret).shown = Val(Val(pcall).smm).originalFile

WebpackCandidates ==
  <<File(<<"proj", "src">>, "x", <<"ts">>),
    File(<<"proj", "src", "src">>, "x", <<"ts">>),
    File(<<"proj", "app", "src">>, "x", <<"ts">>),
    File(<<"proj", "pages", "src">>, "x", <<"ts">>),
    File(<<"proj", "components", "src">>, "x", <<"ts">>)>>

----------------------------------------------------------------------------
(* The version normalizers: parseESVersion, TARGET_MAP, parseEcmaVersion *)

\* str.match(/es(\d+)/i): the position of the first "es" (either case)
\* that a digit follows, 0 when there is none
EsMatch(cs) ==
  LET at(i) == /\ cs[i] \in {"e", "E"}
               /\ cs[i + 1] \in {"s", "S"}
               /\ IsDigit(cs[i + 2])
      hits  == { i \in 1..(Len(cs) - 2) : at(i) }
  IN  IF hits = {} THEN 0 ELSE CHOOSE i \in hits : \A j \in hits : i <= j

\* parseESVersion(str): the year as a string, None for null
parseESVersion(str) ==
  LET cs == Chars(str)
      m  == EsMatch(cs)
  IN  IF m = 0 THEN None
      ELSE LET esVersion == DecimalValue(SubSeq(cs, m + 2,
                                                DigitRunEnd(cs, m + 2) - 1))
           IN  IF esVersion >= 2000 THEN Some(toString(esVersion))
               ELSE Some(toString(2009 + esVersion))

\* one call of a normalizer; the value it returns, None for null/undefined
NormalizerResult(call) ==
  CASE call.by = "parseESVersion" -> parseESVersion(call.str)
    [] call.by = "TARGET_MAP" -> MappedTarget(call.str)
    [] call.by = "parseEcmaVersion" -> parseEcmaVersion(call.str)

\* the calls a caller makes one after the other, and what each returned
NormalizeVersion ==
  /\ pcall # None
  /\ Val(pcall).fn = "normalize"
  /\ LET done == IF pret = None THEN <<>> ELSE Val(pret)
     IN  /\ Len(done) < Len(Val(pcall).calls)
         /\ pret' = Some(Append(done,
                           NormalizerResult(Val(pcall).calls[Len(done) + 1])))
  /\ UNCHANGED <<pcall, dvars, cvars, mvars, rvars>>

Normalizers == {"parseESVersion", "TARGET_MAP", "parseEcmaVersion"}

NormalizerInputs ==
  {"latest", "invalid", "ESNext", "2", "3", "5", "6", "7", "11", "17",
   "1999", "2009",
   "2015", "2016", "2020", "2026", "2027", "9999", "ES3", "ES5", "es5",
   "ES6", "es6", "es7", "ES2015", "es2015", "ES2016", "es2016", "ES2020",
   "es2020", "es9999", "2020abc", "notes6", " 6", "-6"}

NormalizerCalls == { [by |-> f, str |-> s] : f \in Normalizers, s \in NormalizerInputs }

InitNormalize ==
  /\ IdleDetect
  /\ IdleCheck
  /\ IdleMap
  /\ IdleRun
  /\ pcall \in { Some([fn |-> "normalize", calls |-> <<a, b>>]) :
                   a \in NormalizerCalls, b \in NormalizerCalls }
  /\ pret = None

NextNormalize == NormalizeVersion

SpecNormalize == InitNormalize /\ [][NextNormalize]_vars

\* a spelling read as the claim reads it: an optional ES/es followed by
\* digits and nothing else
PlainNumber(cs) == cs # <<>> /\ \A i \in 1..Len(cs) : IsDigit(cs[i])

NamedIdentifier(cs) ==
  /\ Len(cs) > 2
  /\ <<cs[1], cs[2]>> \in {<<"E", "S">>, <<"e", "s">>}
  /\ PlainNumber(SubSeq(cs, 3, Len(cs)))

NumberSpelled(cs) ==
  IF NamedIdentifier(cs) THEN DecimalValue(SubSeq(cs, 3, Len(cs)))
  ELSE DecimalValue(cs)

\* the edition a spelling stands for: 6 for "6", "2015", "ES6", "es2015"
LogicalVersion(s) ==
  LET cs == Chars(s)
  IN  IF ~(PlainNumber(cs) \/ NamedIdentifier(cs)) THEN None
      ELSE LET n == NumberSpelled(cs)
           IN  IF n \in {3} \cup (5..17) THEN Some(n)
               ELSE IF n \in 2015..2026 THEN Some(n - 2009)
               ELSE None

\* the value of a returned token, whichever normalizer returned it
TokenValue(by, r) ==
  IF by = "parseEcmaVersion"
    THEN (IF Val(r).latest THEN "latest" ELSE toString(Val(r).num))
    ELSE Val(r)

Returns == IF pret = None THEN <<>> ELSE Val(pret)

Normalizing == pcall # None /\ Val(pcall).fn = "normalize"

\* C13: all supported spellings of one logical version (edition number,
\* year, named identifier, upper or lower case) are mapped by the version
\* normalizer to one identical canonical token
C13_OneCanonicalToken ==
  Normalizing =>
    \A i, j \in 1..Len(Returns) :
      LET a == Val(pcall).calls[i]
          b == Val(pcall).calls[j]
      IN  ( /\ LogicalVersion(a.str) # None
            /\ LogicalVersion(a.str) = LogicalVersion(b.str)
            /\ Returns[i] # None
            /\ Returns[j] # None )
          => TokenValue(a.by, Returns[i]) = TokenValue(b.by, Returns[j])

\* the numeric bounds of the claim: the legacy floor and the ceiling
LegacyFloor == 3
Ceiling == 2026

\* a string that is no version at all, or a number outside the bounds
NotAVersion(s) ==
  LET cs == Chars(s)
  IN  /\ s # "latest"
      /\ ~PlainNumber(cs)
      /\ ~NamedIdentifier(cs)

OutOfBounds(s) ==
  LET cs == Chars(s)
  IN  /\ PlainNumber(cs) \/ NamedIdentifier(cs)
      /\ (NumberSpelled(cs) < LegacyFloor \/ NumberSpelled(cs) > Ceiling)

\* C14: the version normalizer returns "unrecognized" for every numeric
\* version below the legacy floor or above the ceiling and for every string
\* that is not a version
C14_Unrecognized ==
  Normalizing =>
    \A i \in 1..Len(Returns) :
      LET a == Val(pcall).calls[i]
      IN  (NotAVersion(a.str) \/ OutOfBounds(a.str)) => Returns[i] = None

----------------------------------------------------------------------------
(* Target values past the extractors *)

\* the canonical form: a 4-digit year or "latest"
IsCanonical(s) ==
  \/ s = "latest"
  \/ (PlainNumber(Chars(s)) /\ Len(Chars(s)) = 4)

ExplicitTarget == opts # None /\ TruthyStr(Val(opts).target)

EngineTarget == Val(ccfg).target

\* C15 as stated: every target value in the DetectionResult, in the engine
\* configuration and in the run result is a 4-digit year or "latest"
C15_Original ==
  /\ result.target # None => IsCanonical(Val(result.target))
  /\ (Started /\ ccfg # None) => IsCanonical(EngineTarget)
  /\ Returned => IsCanonical(Val(ret).target)

\* C15: the target an extractor stored in the DetectionResult is a 4-digit
\* year, and so is the target handed to the engine and returned when no
\* target was specified; a specified target is handed on and returned exactly
\* as the caller spelled it
C15_CanonicalUnlessSpecified ==
  /\ result.target # None => IsCanonical(Val(result.target))
  /\ (Started /\ ccfg # None) =>
       IF ExplicitTarget THEN EngineTarget = Val(Val(opts).target)
       ELSE IsCanonical(EngineTarget)
  /\ Returned =>
       IF ExplicitTarget THEN Val(ret).target = Val(Val(opts).target)
       ELSE IsCanonical(Val(ret).target)

C15_Witness ==
  /\ Returned
  /\ ~ExplicitTarget
  /\ files[4] # Absent
  /\ files[4].obj.target = Some("ES6")
  /\ result.target = Some("2015")
  /\ EngineTarget = "2015"
  /\ Val(ret).target = "2015"

----------------------------------------------------------------------------
(* The extractors called on their own *)

\* parser(filePath) is called for one file, once under each of the given
\* states of the project-type cache
ExtractFile ==
  /\ pcall # None
  /\ Val(pcall).fn = "extract"
  /\ LET done == IF pret = None THEN <<>> ELSE Val(pret)
         c    == Val(pcall)
     IN  /\ Len(done) < Len(c.caches)
         /\ LET out == RunParser(getParser(CONFIG_FILE_NAMES[c.candidate]),
                                 c.file, c.caches[Len(done) + 1])
            IN  pret' = Some(Append(done, [threw |-> out.threw, r |-> out.r]))
  /\ UNCHANGED <<pcall, dvars, cvars, mvars, rvars>>

ExtractCalls ==
  { [fn |-> "extract", candidate |-> i, file |-> f, caches |-> <<p, q>>] :
      i \in Candidates, f \in UNION { Contents(j) : j \in Candidates },
      p \in ProjectTypeCaches, q \in ProjectTypeCaches }

InitExtract ==
  /\ IdleDetect
  /\ IdleCheck
  /\ IdleMap
  /\ IdleRun
  /\ pcall \in { Some(c) : c \in { x \in ExtractCalls :
                                     x.file \in Contents(x.candidate) } }
  /\ pret = None

NextExtract == ExtractFile

SpecExtract == InitExtract /\ [][NextExtract]_vars

Extracting == pcall # None /\ Val(pcall).fn = "extract"

\* C16: for the same file contents an extractor returns the same result,
\* whatever the process-wide state left by an earlier detection run
C16_ContentsOnly ==
  (Extracting /\ Len(Returns) = 2) => Returns[1] = Returns[2]

----------------------------------------------------------------------------
(* detectProjectConfig with the default output directory of the project type *)

ProjectTypeKeys == {"nextjs", "vite", "webpack", "rollup", "parcel", "generic"}

DEFAULT_OUTPUT_DIRS ==
  [p \in ProjectTypeKeys |-> IF p = "nextjs" THEN ".next/static" ELSE "dist"]

isProjectType(projectType) == projectType \in ProjectTypeKeys

getDefaultOutputDir(projectType) ==
  IF isProjectType(projectType) THEN DEFAULT_OUTPUT_DIRS[projectType]
  ELSE DEFAULT_OUTPUT_DIRS["generic"]

\* "If no output directory was found, use global project type to get default"
DefaultOutput(res, pkgFile, pt) ==
  IF TruthyStr(res.outputDir) \/ pkgFile.k = "absent"
    THEN [result |-> res, pt |-> pt]
  ELSE LET d == detectAndCacheProjectType(pkgFile, pt)
       IN  IF ~TruthyStr(d.type) THEN [result |-> res, pt |-> d.pt]
           ELSE [result |-> [res EXCEPT
                               !.outputDir = Some(getDefaultOutputDir(Val(d.type))),
                               !.outputSource = Some("package.json (default)")],
                 pt |-> d.pt]

\* The candidate list is exhausted: the default is applied, result returned
ScanEndDefault ==
  /\ UNCHANGED pvars
  /\ dpc = "scan"
  /\ Later(files, idx) = {}
  /\ LET d == DefaultOutput(result, files[1], ptype)
     IN  /\ result' = d.result
         /\ ptype' = d.pt
  /\ dpc' = "done"
  /\ idx' = Len(CONFIG_FILE_NAMES)
  /\ UNCHANGED <<files, scanned, failed, cvars, mvars, rvars>>

\* manifests that name one build tool, or none, and give no output path
ToolPackageJsons ==
  { [k |-> "json",
     obj |-> [t |-> "pkg", browserslist |-> None, dist |-> None, build |-> None,
              main |-> None, deps |-> deps]] :
      deps \in {{}, {"next"}, {"vite"}, {"webpack"}, {"rollup"}, {"parcel"},
                {"webpack", "vite"}} }

DefaultProjects ==
  { [i \in Candidates |-> IF i = 1 THEN pkg ELSE IF i = 4 THEN ts ELSE Absent] :
      pkg \in {Absent} \cup PackageJsons \cup ToolPackageJsons,
      ts \in {Absent} \cup TsConfigs }

InitDefault ==
  /\ IdlePure
  /\ IdleCheck
  /\ IdleMap
  /\ IdleRun
  /\ files \in DefaultProjects
  /\ ptype \in ProjectTypeCaches
  /\ dpc = "scan"
  /\ idx = 0
  /\ result = EmptyDetection
  /\ scanned = {}
  /\ failed = {}

NextDefault == ScanNext \/ ScanEndDefault

SpecDefault == InitDefault /\ [][NextDefault]_vars

KnownTools == {"next", "vite", "webpack", "rollup", "parcel"}

\* the manifest names a known build tool and gives no output path
NamesToolOnly(f) ==
  /\ f.k = "json"
  /\ f.obj.t = "pkg"
  /\ f.obj.deps \cap KnownTools # {}
  /\ ~TruthyStr(f.obj.dist)
  /\ ~TruthyStr(f.obj.build)
  /\ ~(f.obj.main # None /\ Val(f.obj.main).inDist)

\* no other file of the project gives an output path
NoOtherOutput ==
  \A i \in Candidates \ {1} :
    files[i].k = "absent" \/ JsonThrows(files[i]) \/ ~IsObject(files[i])
      \/ ~files[i].obj.hasCompilerOptions \/ ~TruthyStr(files[i].obj.outDir)

\* C17: for a manifest that names a known build tool and gives no output
\* path, detection returns that tool's default output directory, with a
\* provenance that marks it as a default and is not the plain filename
C17_ToolDefault ==
  (dpc = "done" /\ NamesToolOnly(files[1]) /\ NoOtherOutput) =>
    /\ result.outputDir =
         Some(getDefaultOutputDir(detectProjectType(files[1].obj.deps)))
    /\ result.outputSource = Some("package.json (default)")

----------------------------------------------------------------------------
(* parsePackageJson and the browserslist field *)

\* a call of parsePackageJson on a manifest with a (truthy) browserslist
ManifestWithList ==
  /\ Extracting
  /\ Val(pcall).candidate = 1
  /\ IsObject(Val(pcall).file)
  /\ TruthyBrowserslist(Val(pcall).file.obj.browserslist)

ListedItems == Val(Val(pcall).file.obj.browserslist).items

\* the positions of the entries of the field that are strings
StringPositions == { i \in 1..Len(ListedItems) : ListedItems[i].str }

\* the k-th of them
StringPosition(k) ==
  CHOOSE i \in StringPositions :
    Cardinality({ j \in StringPositions : j <= i }) = k

----------------------------------------------------------------------------
(* The diagnostics checkCompatibility reports *)

\* every message of the reported violations
ReportedMessages ==
  UNION { { v.messages[n] : n \in 1..Len(v.messages) } :
            v \in { errors[i] : i \in 1..Len(errors) }
                    \cup { warnings[i] : i \in 1..Len(warnings) } }

\* C19: checkCompatibility reports only diagnostics whose rule is
\* compat/compat or absent; a message of any other rule and a notice "has no
\* effect because you have 'noInlineConfig'" never appear in errors or warnings
C19_OnlyCompatOrParse ==
  \A m \in ReportedMessages :
    /\ m.ruleId \in {None, Some("compat/compat")}
    /\ ~m.noInline

----------------------------------------------------------------------------
(* evaluateJsFile called on its own *)

\* evaluateJsFile(filePath)
EvaluateFile ==
  /\ pcall # None
  /\ Val(pcall).fn = "evaluateJsFile"
  /\ pret = None
  /\ pret' = Some(evaluateJsFile(Val(pcall).file))
  /\ UNCHANGED <<pcall, dvars, cvars, mvars, rvars>>

\* a script has at most this many statements
MaxSteps == 2

Steps ==
  {Step("require", "path"), Step("require", "fs"), Step("require", "crypto"),
   Step("throw", ""), Step("exports", "")}

Scripts(max) ==
  { [syntax |-> s, steps |-> st] :
      s \in BOOLEAN, st \in UNION { [1..n -> Steps] : n \in 0..max } }

EvaluatedFiles(max) ==
  {Unreadable}
  \cup { [k |-> "js", script |-> sc, exports |-> [distDir |-> d]] :
           sc \in Scripts(max), d \in {None, Some("build")} }

InitEvaluate ==
  /\ IdleDetect
  /\ IdleCheck
  /\ IdleMap
  /\ IdleRun
  /\ pcall \in { Some([fn |-> "evaluateJsFile", file |-> f]) :
                   f \in EvaluatedFiles(MaxSteps) }
  /\ pret = None

NextEvaluate == EvaluateFile

SpecEvaluate == InitEvaluate /\ [][NextEvaluate]_vars

\* the evaluated file exists and can be read
EvaluatedJs ==
  /\ pcall # None
  /\ Val(pcall).fn = "evaluateJsFile"
  /\ pret # None
  /\ Val(pcall).file.k = "js"

StatementsOf(f) == { f.script.steps[i] : i \in 1..Len(f.script.steps) }

\* the text asks for a module other than the two permitted ones
AsksOtherModule(f) ==
  \E s \in StatementsOf(f) : s.op = "require" /\ s.id \notin {"path", "fs"}

\* the evaluation fails: syntax error, refused request or runtime error
EvaluationFails(f) ==
  \/ ~f.script.syntax
  \/ AsksOtherModule(f)
  \/ \E s \in StatementsOf(f) : s.op = "throw"

\* C20: evaluateJsFile makes only path and fs available, refuses a request
\* for any other module, and turns every evaluation failure (refused request,
\* syntax error, runtime error) into null instead of raising to the caller
C20_RestrictedEvaluation ==
  EvaluatedJs =>
    LET f == Val(pcall).file
        out == Val(pret)
    IN  /\ ~out.threw
        /\ EvaluationFails(f) => out.value = None
        /\ ~EvaluationFails(f) => out.value # None

C20_Witness ==
  /\ EvaluatedJs
  /\ Val(pcall).file.script.syntax
  /\ Val(pcall).file.script.steps = <<Step("require", "fs"), Step("require", "crypto")>>
  /\ Val(pret) = [threw |-> FALSE, value |-> None]

----------------------------------------------------------------------------
(* The project-type cache over a sequence of detectAndCacheProjectType     *)
(* calls, writes of package.json and resetGlobalState calls                *)
(* (globalState.test.ts:115-166).                                          *)

\* globalState.ts:47-50, the reset that leaves the project type in place
resetVerboseAndDebugOnly(pt) == pt

\* globalState.ts:106-111
resetGlobalState(pt) == [detected |-> FALSE, type |-> None]

MaxEvents == 5

Manifest(deps) ==
  [k |-> "json",
   obj |-> [t |-> "pkg", browserslist |-> None, dist |-> None, build |-> None,
            main |-> None, deps |-> deps]]

CacheManifests == {Absent, BadJson, Manifest({"vite"}), Manifest({"webpack"})}

\* what has happened so far, oldest first
CacheLog == IF pret = None THEN <<>> ELSE Val(pret)

CacheEvent(ev, returned) ==
  [ev |-> ev, ret |-> returned, manifest |-> files[1]]

CacheCall ==
  /\ pcall # None
  /\ Val(pcall).fn = "detectAndCacheProjectType"
  /\ Len(CacheLog) < MaxEvents
  /\ LET d == detectAndCacheProjectType(files[1], ptype)
     IN  /\ ptype' = d.pt
         /\ pret' = Some(Append(CacheLog, CacheEvent("call", d.type)))
  /\ UNCHANGED <<files, dpc, idx, result, scanned, failed, pcall>>
  /\ UNCHANGED <<cvars, mvars, rvars>>

CacheReset ==
  /\ pcall # None
  /\ Val(pcall).fn = "detectAndCacheProjectType"
  /\ Len(CacheLog) < MaxEvents
  /\ ptype' = resetGlobalState(ptype)
  /\ pret' = Some(Append(CacheLog, CacheEvent("reset", None)))
  /\ UNCHANGED <<files, dpc, idx, result, scanned, failed, pcall>>
  /\ UNCHANGED <<cvars, mvars, rvars>>

\* fs.writeFileSync("package.json", ...) between two calls
WriteManifest ==
  /\ pcall # None
  /\ Val(pcall).fn = "detectAndCacheProjectType"
  /\ Len(CacheLog) < MaxEvents
  /\ \E f \in CacheManifests \ {files[1]} :
       /\ files' = [files EXCEPT ![1] = f]
       /\ pret' = Some(Append(CacheLog,
                              [ev |-> "write", ret |-> None, manifest |-> f]))
  /\ UNCHANGED <<ptype, dpc, idx, result, scanned, failed, pcall>>
  /\ UNCHANGED <<cvars, mvars, rvars>>

InitCache ==
  /\ IdleCheck
  /\ IdleMap
  /\ IdleRun
  /\ files \in { [[i \in Candidates |-> Absent] EXCEPT ![1] = f] :
                   f \in CacheManifests }
  /\ ptype = [detected |-> FALSE, type |-> None]
  /\ dpc = "idle"
  /\ idx = 0
  /\ result = EmptyDetection
  /\ scanned = {}
  /\ failed = {}
  /\ pcall = Some([fn |-> "detectAndCacheProjectType"])
  /\ pret = None

NextCache == CacheCall \/ CacheReset \/ WriteManifest

SpecCache == InitCache /\ [][NextCache]_vars

\* no resetGlobalState call among the events i+1 .. j-1
NoResetBetween(i, j) ==
  \A k \in (i + 1)..(j - 1) : CacheLog[k].ev # "reset"

\* no detectAndCacheProjectType call among the events i+1 .. j-1
NoCallBetween(i, j) ==
  \A k \in (i + 1)..(j - 1) : CacheLog[k].ev # "call"

\* what a detection with nothing cached makes of a manifest
ReadFromManifest(f) ==
  detectAndCacheProjectType(f, [detected |-> FALSE, type |-> None]).type

\* C21: once a call has detected a type, every later call returns that type
\* until resetGlobalState is called, whatever package.json holds by then;
\* the first call after a reset returns what package.json holds at that call.
C21_CachedUntilReset ==
  /\ \A i, j \in 1..Len(CacheLog) :
       (/\ i < j
        /\ CacheLog[i].ev = "call"
        /\ CacheLog[i].ret # None
        /\ CacheLog[j].ev = "call"
        /\ NoResetBetween(i, j))
       => CacheLog[j].ret = CacheLog[i].ret
  /\ \A i, j \in 1..Len(CacheLog) :
       (/\ i < j
        /\ CacheLog[i].ev = "reset"
        /\ CacheLog[j].ev = "call"
        /\ NoCallBetween(i, j)
        /\ NoResetBetween(i, j))
       => CacheLog[j].ret = ReadFromManifest(CacheLog[j].manifest)

\* vite detected, package.json rewritten for webpack, vite returned again,
\* reset, webpack returned
C21_Witness ==
  /\ Len(CacheLog) = 5
  /\ CacheLog[1].ev = "call" /\ CacheLog[1].ret = Some("vite")
  /\ CacheLog[2].ev = "write" /\ CacheLog[2].manifest = Manifest({"webpack"})
  /\ CacheLog[3].ev = "call" /\ CacheLog[3].ret = Some("vite")
  /\ CacheLog[4].ev = "reset"
  /\ CacheLog[5].ev = "call" /\ CacheLog[5].ret = Some("webpack")

----------------------------------------------------------------------------
(* Normalizing a canonical token again *)

\* the i-th call returned a canonical token: a 4-digit year or "latest"
ReturnedCanonical(i) ==
  /\ Returns[i] # None
  /\ IsCanonical(TokenValue(Val(pcall).calls[i].by, Returns[i]))

\* C22: normalizing an already canonical token returns that same token:
\* parseEcmaVersion(c) = c for every 4-digit year a normalizer produces and
\* for "latest"
C22_CanonicalIsFixed ==
  Normalizing =>
    \A i, j \in 1..Len(Returns) :
      LET a == Val(pcall).calls[i]
          b == Val(pcall).calls[j]
      IN  ( /\ ReturnedCanonical(i)
            /\ b.by = "parseEcmaVersion"
            /\ b.str = TokenValue(a.by, Returns[i]) )
          => /\ Returns[j] # None
             /\ TokenValue(b.by, Returns[j]) = b.str

----------------------------------------------------------------------------
(* The early stop of detectProjectConfig *)

\* the loop from candidate i on without its break: every existing
\* candidate is parsed and merged
RECURSIVE FullScanFrom(_, _, _, _)
FullScanFrom(fs, res, pt, i) ==
  IF Later(fs, i) = {} THEN res
  ELSE LET j == Min(Later(fs, i))
           step == ScanCandidate(fs, res, pt, j)
       IN  FullScanFrom(fs, step.result, step.pt, j)

\* target, output directory and runtime list are all populated
AllPopulated == \A f \in Fields : Truthy(f, result[f])

\* an existing candidate after the last one processed
LaterCandidateLeft == \E j \in Present : j > idx /\ j \notin scanned

StoppedEarly == dpc = "done" /\ AllPopulated /\ LaterCandidateLeft

\* the result is what parsing the remaining candidates too would give
SameAsFullScan ==
  (dpc = "done" /\ AllPopulated) =>
    result = FullScanFrom(files, result, ptype, idx)

\* once all three fields are populated no further candidate is parsed
NoLaterRead == AllPopulated => (scanned' = scanned /\ result' = result)

\* project directories holding any of package.json, .browserslistrc,
\* tsconfig.json, vite.config.js and next.config.js at once
StackedProjects ==
  { [i \in Candidates |->
       CASE i = 1 -> p [] i = 2 -> b [] i = 4 -> ts [] i = 9 -> v
         [] i = 17 -> n [] OTHER -> Absent] :
    p \in PackageJsons \cup {Absent}, b \in BrowserslistFiles \cup {Absent},
    ts \in TsConfigs \cup {Absent}, v \in ViteConfigs \cup {Absent},
    n \in NextConfigs \cup {Absent} }

InitStacked ==
  /\ IdlePure
  /\ IdleCheck
  /\ IdleMap
  /\ IdleRun
  /\ files \in StackedProjects
  /\ ptype = [detected |-> FALSE, type |-> None]
  /\ dpc = "scan"
  /\ idx = 0
  /\ result = EmptyDetection
  /\ scanned = {}
  /\ failed = {}

NextStacked == ScanNext \/ ScanEnd

SpecStacked == InitStacked /\ [][NextStacked]_vars

\* C23: as soon as target, output directory and runtime list are all
\* populated after a candidate has been processed, detectProjectConfig
\* parses no later candidate, and its result equals the result a scan of
\* all candidates would have produced.
C23_EarlyStop == [](SameAsFullScan) /\ [][NoLaterRead]_vars

\* the scan stopped before an existing candidate that supplies another
\* value for a field
C23_Witness ==
  /\ StoppedEarly
  /\ \E j \in Present : \E f \in Fields :
       /\ j > idx /\ j \notin scanned
       /\ Supplies(j, f) /\ Extraction(j)[f] # result[f]

----------------------------------------------------------------------------
(* An extractor on a file that holds none of the three fields *)

\* a runtime-list file with nothing but comments and blank lines
OnlyCommentsAndBlanks(f) ==
  /\ f.k = "text"
  /\ \A i \in 1..Len(f.lines) : f.lines[i].kind \in {"comment", "blank"}

\* C24: an extractor given content that parses but holds none of the three
\* fields (a runtime-list file of comments and blank lines) returns a result
\* in which target, output directory and runtime list are all absent, not
\* an empty list
C24_NothingFoundIsAbsent ==
  (Extracting /\ OnlyCommentsAndBlanks(Val(pcall).file)) =>
    \A i \in 1..Len(Returns) :
      /\ ~Returns[i].threw
      /\ \A f \in Fields : Returns[i].r[f] = None

----------------------------------------------------------------------------
(* Termination of getOriginalSourceMap *)

\* the loop is a sequence of awaited steps that the event loop resumes:
\* an iteration that can run does run
SpecMapFair == SpecMap /\ WF_vars(Hop)

\* C25: getOriginalSourceMap terminates for every state of the file system,
\* also for a map chain that refers back to a file of the chain: the call
\* ends, returning or throwing, after finitely many hops
C25_Terminates == <>(mpc \in {"done", "threw"})

----------------------------------------------------------------------------
(* Detected targets and the validation in createESLintConfig *)

\* the run ended with getEcmaVersion's error
FailedOnTargetValidation ==
  /\ rpc = "threw"
  /\ Val(ret).error = "Invalid ECMAScript version"

\* C26: every target value that detection returns is accepted when the
\* engine configuration is built: a run whose target was auto-detected does
\* not fail on target validation
C26_DetectedTargetAccepted ==
  (opts # None /\ ~ExplicitTarget /\ TruthyStr(result.target)) =>
    ~FailedOnTargetValidation

----------------------------------------------------------------------------
(* A map artifact that cannot be loaded *)

\* loading or parsing the map of a compiled file failed during the call
MapLoadFailed == lastHop # None /\ Val(lastHop).out.threw

\* the violation list holds the messages msgs of the file
InResult(list, file, msgs) ==
  msgs # <<>> =>
    \E n \in 1..Len(list) : list[n].file = file /\ list[n].messages = msgs

\* C27: a failure while loading or parsing the map of one compiled file
\* removes no diagnostic from the result: the diagnostics of that file and
\* of every other linted file are returned by checkCompatibility
C27_MapFailureKeepsDiagnostics ==
  (cpc = "returned" /\ MapLoadFailed) =>
    \A i \in 1..Len(lintOut.results) :
      LET r == lintOut.results[i]
      IN  /\ InResult(errors, r.filePath, errorMessagesOf(r))
          /\ InResult(warnings, r.filePath, warningMessagesOf(r))

----------------------------------------------------------------------------
(* Two checkCompatibility calls in one process.  pcall holds the Config of *)
(* each call, pret where each call is and its originalBrowserslistEnv; env *)
(* is the one process.env.BROWSERSLIST both calls share.  A call runs      *)
(* without interruption from one await to the next.                        *)

OverlapConfigs ==
  { [dir |-> <<"out">>, target |-> "2020", browsers |-> b] :
      b \in {None, Some(<<>>), Some(<<"ie 11">>), Some(<<"chrome 64">>)} }

NotStarted == [pc |-> "idle", orig |-> None, during |-> "idle"]

Overlapping == pcall # None /\ Val(pcall).fn = "checkCompatibility"

CallState(k) == Val(pret)[k]

ConfigOf(k) == Val(pcall).configs[k]

\* call k from its entry to "await eslint.lintFiles([config.dir])"; the
\* second call is made after the first
OverlapStart(k) ==
  /\ Overlapping
  /\ CallState(k).pc = "idle"
  /\ k = 2 => CallState(1).pc # "idle"
  /\ ~createESLintConfigThrows(ConfigOf(k).target)
  /\ env' = IF TruthyQuery(ConfigOf(k).browsers) THEN ConfigOf(k).browsers
            ELSE env
  /\ pret' = Some([Val(pret) EXCEPT
                     ![k] = [pc |-> "linting", orig |-> env,
                             during |-> CallState(1).pc]])
  /\ UNCHANGED <<mfs, lintOut, ccfg, cpc, origEnv, envAtEntry, envAtLint, fi,
                 errors, warnings, pcall, dvars, mvars, rvars>>

\* eslint.lintFiles of call k settles with files to process: the loop body
\* runs up to "await getOriginalSourceMap(result.filePath)"
OverlapLinted(k) ==
  /\ Overlapping
  /\ CallState(k).pc = "linting"
  /\ pret' = Some([Val(pret) EXCEPT ![k].pc = "remapping"])
  /\ UNCHANGED <<cvars, pcall, dvars, mvars, rvars>>

\* call k reaches its finally block, from the loop, from the early return
\* for no results, or from the catch, and returns
OverlapFinally(k) ==
  /\ Overlapping
  /\ CallState(k).pc \in {"linting", "remapping"}
  /\ env' = RestoreEnv(CallState(k).orig, env)
  /\ pret' = Some([Val(pret) EXCEPT ![k].pc = "returned"])
  /\ UNCHANGED <<mfs, lintOut, ccfg, cpc, origEnv, envAtEntry, envAtLint, fi,
                 errors, warnings, pcall, dvars, mvars, rvars>>

\* envAtEntry is BROWSERSLIST before the first call
InitOverlap ==
  /\ IdleDetect
  /\ IdleMap
  /\ IdleRun
  /\ env \in {None, Some(<<"defaults">>)}
  /\ envAtEntry = env
  /\ mfs = <<>>
  /\ lintOut = [throws |-> FALSE, results |-> <<>>]
  /\ ccfg = None
  /\ cpc = "idle"
  /\ origEnv = None
  /\ envAtLint = None
  /\ fi = 0
  /\ errors = <<>>
  /\ warnings = <<>>
  /\ pcall \in { Some([fn |-> "checkCompatibility", configs |-> <<a, b>>]) :
                   a \in OverlapConfigs, b \in OverlapConfigs }
  /\ pret = Some(<<NotStarted, NotStarted>>)

NextOverlap ==
  \E k \in {1, 2} : OverlapStart(k) \/ OverlapLinted(k) \/ OverlapFinally(k)

SpecOverlap == InitOverlap /\ [][NextOverlap]_vars

\* the second call started while the first was awaiting the engine
SecondDuringFirst == CallState(2).during = "linting"

\* C28: when two checkCompatibility calls overlap (the second starts while
\* the first is awaiting the engine), then after both have finished, in any
\* interleaving, BROWSERSLIST has the value it had before the first call,
\* and while a call's engine runs BROWSERSLIST is that call's own runtime
\* list
C28_OverlapScoped ==
  (Overlapping /\ SecondDuringFirst) =>
    /\ (CallState(1).pc = "returned" /\ CallState(2).pc = "returned") =>
         env = envAtEntry
    /\ \A k \in {1, 2} :
         (CallState(k).pc = "linting" /\ TruthyQuery(ConfigOf(k).browsers)) =>
           env = ConfigOf(k).browsers

----------------------------------------------------------------------------
(* Hard-coded defaults and explicit values *)

\* the field of the result is a hard-coded tool default
DefaultIn(f) ==
  \/ f = "outputDir" /\ result.outputSource = Some("package.json (default)")
  \/ f = "browserslist" /\ result.browserslistSource = Some("Next.js default")

\* candidate j, a file other than the manifest, states a value for field f
ExplicitValue(j, f) ==
  /\ j # 1
  /\ Supplies(j, f)
  /\ ~(f = "outputDir" /\ Extraction(j)[f] = Some(".next"))
  /\ ~(f = "browserslist" /\ Extraction(j)[f] = Some(<<>>))

\* C29: a hard-coded tool default (default output directory or default
\* runtime list) is in the DetectionResult only if no existing candidate
\* file supplies an explicit value for that field
C29_DefaultOnlyWithoutExplicit ==
  dpc = "done" =>
    \A f \in {"outputDir", "browserslist"} :
      DefaultIn(f) => ~(\E j \in Present : ExplicitValue(j, f))

----------------------------------------------------------------------------
(* runESGuard with skipCompatWarnings *)

SkipOptions ==
  { [target |-> t, browsers |-> None, directory |-> Some("build"),
     skip |-> None, verbose |-> FALSE, skipCompatWarnings |-> s] :
      t \in {Some("2020"), Some("2009")},
      s \in {None, Some(FALSE), Some(TRUE)} }

\* runESGuard(options) is called in a project without configuration files
InitSkip ==
  /\ IdlePure
  /\ IdleDetect
  /\ IdleMap
  /\ env = None
  /\ mfs \in CheckFileSystems
  /\ lintOut = [throws |-> FALSE, results |-> <<>>]
  /\ ccfg = None
  /\ cpc = "idle"
  /\ origEnv = None
  /\ envAtEntry = None
  /\ envAtLint = None
  /\ fi = 0
  /\ errors = <<>>
  /\ warnings = <<>>
  /\ opts \in { Some(o) : o \in SkipOptions }
  /\ disk = [d \in ExplicitDirs \cup DetectedDirs |-> "dir"]
  /\ rpc = "call"
  /\ ret = None

SpecSkip == InitSkip /\ [][NextRun]_vars

\* the messages of a list of violations that come from compat/compat
CompatMessages(list) ==
  UNION { { list[i].messages[n] : n \in 1..Len(list[i].messages) } :
            i \in 1..Len(list) }
  \cap { m \in {MsgError, MsgWarning, MsgNotice, MsgFileLevel, MsgOtherRule} :
           m.ruleId = Some("compat/compat") }

\* C30: when runESGuard is called with skipCompatWarnings = true, the
\* engine configuration of that run has compat/compat turned off, and the
\* run returns no compat/compat diagnostics
C30_SkipCompatTurnsRuleOff ==
  (opts # None /\ Val(opts).skipCompatWarnings = Some(TRUE)) =>
    /\ ccfg # None => EngineCompatRule(Val(ccfg)) = "off"
    /\ rpc = "returned" =>
         CompatMessages(Val(ret).errors) \cup CompatMessages(Val(ret).warnings)
           = {}

====
